---- MODULE Spec2Model ----
(***************************************************************************)
(* WSSI API (wssi-api/main.py): API keys, the daily rate limiter, the      *)
(* legacy auth endpoints, the billing webhook, the Fragility Brief archive *)
(* (publish, retention, viewer gating) and the free/paid redaction of a    *)
(* brief model.                                                            *)
(*                                                                         *)
(* Time is a counter of ticks; TicksPerDay ticks make one UTC day.         *)
(* Timestamps that the code stores as ISO text are kept as the pair        *)
(* <<date, time of day>> the text spells out.                              *)
(***************************************************************************)
EXTENDS Integers, Sequences, FiniteSets, TLC

VARIABLES
    now,              \* datetime.utcnow(), in ticks
    api_keys,         \* table api_keys: key_hash -> row
    users,            \* table users: email -> row
    rate_limits,      \* table rate_limits: key_hash -> row
    billing_events,   \* table billing_events: sequence of rows
    next_token,       \* tokens handed out so far by secrets.token_urlsafe
    resp,             \* the response of the last request
    issued,           \* history: email -> keys returned to it, oldest first
    stripe_env,       \* which Stripe settings and module are present
    rl_limit,         \* the limit argument of check_rate_limit (SpecRate)
    rl_out,           \* the result of the last check_rate_limit call (SpecRate)
    rl_calls,         \* history: key_hash -> calls made or allowed in its current window
    workers,          \* the check_rate_limit calls in progress, per worker process
    brief_releases,   \* table brief_releases: release_id -> row
    disk,             \* the files under BRIEF_RELEASES_ROOT
    archive_env,      \* WSSI_BRIEF_ARCHIVE_MAX_RELEASES and WSSI_BRIEF_PUBLISH_TOKEN
    next_release,     \* release ids generated so far
    pub,              \* the outcome of the last publish request
    view,             \* the response of the last archive read request
    base_model,       \* the argument of apply_brief_variant (SpecVariant)
    variant_out,      \* the result of the last apply_brief_variant call (SpecVariant)
    alert_config,     \* config/alerts.json as load_config returned it
    wssi_data,        \* data/wssi-latest.json as the monitor reads it
    alert_history,    \* table alert_history of alerts.db: sequence of rows
    alert_state,      \* table alert_state of alerts.db: theme_id -> row
    mon,              \* the outcome of the last run_monitor call
    checkout_sessions, \* the Checkout Sessions Stripe has created: their metadata
    history_artifact, \* the wssi-history.json artifact
    history_out       \* the response of the last GET /wssi/history request

vars == <<now, api_keys, users, rate_limits, billing_events, next_token,
          resp, issued, stripe_env, rl_limit, rl_out, rl_calls, workers,
          brief_releases, disk, archive_env, next_release, pub, view,
          base_model, variant_out,
          alert_config, wssi_data, alert_history, alert_state, mon,
          checkout_sessions, history_artifact, history_out>>

(***************************************************************************)
(* Bounds of the model.                                                    *)
(***************************************************************************)
TicksPerDay == 2
MaxTime == 4
MaxLimit == 3
ExtraCalls == 2
MaxKeys == 3
MaxAccessKeys == 2
MaxRequests == 1
MaxExpiresDays == 1
MaxEvents == 2
MaxBillingKeys == 2
MicrosPerSecond == 2
MaxPublishes == 12
MaxFailures == 1
MaxReadReleases == 1
ExtraItems == 1

Max(a, b) == IF a >= b THEN a ELSE b
Min(a, b) == IF a <= b THEN a ELSE b

EmptyTable == [h \in {} |-> 0]

(***************************************************************************)
(* Timestamps.                                                             *)
(***************************************************************************)
\* datetime.isoformat(): the text "<date>T<time>".
isoformat(t) == [date |-> t \div TicksPerDay, sep |-> "T", time |-> t % TicksPerDay]

\* datetime.fromisoformat(): the instant the text denotes.
fromisoformat(s) == s.date * TicksPerDay + s.time

\* (now + timedelta(days=1)).replace(hour=0, minute=0, second=0, microsecond=0)
next_reset_at(t) == isoformat(t + TicksPerDay).date * TicksPerDay

(***************************************************************************)
(* API key strings and their hashes.  A key string "wssi-<prefix>-<token>" *)
(* is the record [prefix, token]; SHA-256 is a collision-free digest of    *)
(* the string.                                                             *)
(***************************************************************************)
Prefixes == <<"free", "basic", "pro", "enterprise", "admin", "invalid">>

PrefixIndex(p) == CHOOSE i \in 1..Len(Prefixes) : Prefixes[i] = p

sha256(api_key) == api_key.token * (Len(Prefixes) + 1) + PrefixIndex(api_key.prefix)

(***************************************************************************)
(* check_rate_limit                                                        *)
(***************************************************************************)
WindowExpiredStrict(t, current_reset) == t > current_reset

\* `if now >= current_reset`
WindowExpired(t, current_reset) == t >= current_reset

RateLimitedOffByOne(current_count, limit) == current_count > limit

\* `elif current_count >= limit`
RateLimited(current_count, limit) == current_count >= limit

HardLimitedNegativeOnly(limit) == limit < 0

\* `if limit <= 0`
HardLimited(limit) == limit <= 0

\* check_rate_limit(key_hash, limit) at time t on table rows: the pair it
\* returns and the table it leaves behind.
check_rate_limit(rows, key_hash, limit, t) ==
    LET reset_at == next_reset_at(t) IN
    IF HardLimited(limit)
    THEN [allowed |-> FALSE, limit |-> limit, remaining |-> 0,
          reset_at |-> reset_at, rows |-> rows]
    ELSE IF key_hash \in DOMAIN rows
    THEN LET current_count == rows[key_hash].requests_count
             current_reset == fromisoformat(rows[key_hash].reset_at)
         IN  IF WindowExpired(t, current_reset)
             THEN \* reset period: the local count is 0, the stored one 1
                  [allowed |-> TRUE, limit |-> limit,
                   remaining |-> Max(0, limit - 0), reset_at |-> reset_at,
                   rows |-> [rows EXCEPT ![key_hash] =
                                [requests_count |-> 1,
                                 reset_at |-> isoformat(reset_at)]]]
             ELSE IF RateLimited(current_count, limit)
             THEN [allowed |-> FALSE, limit |-> limit, remaining |-> 0,
                   reset_at |-> current_reset, rows |-> rows]
             ELSE [allowed |-> TRUE, limit |-> limit,
                   remaining |-> Max(0, limit - (current_count + 1)),
                   reset_at |-> reset_at,
                   rows |-> [rows EXCEPT ![key_hash].requests_count = @ + 1]]
    ELSE \* first request
         [allowed |-> TRUE, limit |-> limit,
          remaining |-> Max(0, limit - 1), reset_at |-> reset_at,
          rows |-> rows @@ (key_hash :> [requests_count |-> 1,
                                         reset_at |-> isoformat(reset_at)])]

\* No check_rate_limit call has been made yet.
NoRateOut == [key |-> -1, at |-> 0, n |-> 0, allowed |-> FALSE, limit |-> 0,
              remaining |-> 0, reset_at |-> 0, before |-> EmptyTable]

(***************************************************************************)
(* Tiers.                                                                  *)
(***************************************************************************)
FreeLimit == 0
BasicLimit == 1000
ProLimit == 1000
EnterpriseLimit == 999999999

SUPPORTED_TIERS == {"free", "basic", "pro", "enterprise"}

PAID_TIERS == {"basic", "pro", "enterprise"}

TIER_RATE_LIMITS(tier) ==
    CASE tier = "free" -> FreeLimit
      [] tier = "basic" -> BasicLimit
      [] tier = "pro" -> ProLimit
      [] tier = "enterprise" -> EnterpriseLimit

\* str(x).strip().lower() on the texts the model feeds in
strip_lower(text) ==
    CASE text = " PRO " -> "pro"
      [] text = " PAID " -> "paid"
      [] text = "A@X.org " -> "a@x.org"
      [] OTHER -> text

\* normalize_tier(tier, default); "" stands for None
normalize_tier(tier, default) ==
    LET normalized == strip_lower(IF tier = "" THEN default ELSE tier)
    IN  IF normalized \in SUPPORTED_TIERS THEN normalized ELSE default

rate_limit_for_tier(tier) == TIER_RATE_LIMITS(normalize_tier(tier, "free"))

is_paid_tier_any(tier) == normalize_tier(tier, "free") \in SUPPORTED_TIERS

is_paid_tier(tier) == normalize_tier(tier, "free") \in PAID_TIERS

\* Field(pattern="^(free|basic|pro|enterprise)$") of APIKeyRequest and APIKeyCreate
tier_pattern(tier) == tier \in {"free", "basic", "pro", "enterprise"}

(***************************************************************************)
(* Keys, passwords, rows.                                                  *)
(***************************************************************************)
NoKey == [prefix |-> "", token |-> -1]          \* None or ""
AdminKey == [prefix |-> "admin", token |-> 0]   \* "wssi-admin-<token>"
InvalidKey == [prefix |-> "invalid", token |-> 0]

NoHash == -1                                    \* NULL key_hash

NoExpiry == [date |-> -1, sep |-> "", time |-> -1]   \* NULL expires_at

NoRow == [tier |-> "", rate_limit |-> -1, is_active |-> FALSE,
          is_admin |-> FALSE, expires_at |-> NoExpiry]

\* SQLite datetime('now'): the text "<date> <time>"
sqlite_datetime_now(t) == [date |-> t \div TicksPerDay, sep |-> " ", time |-> t % TicksPerDay]

\* The code points of the two separators: ' ' is 0x20, 'T' is 0x54.
SepCode(sep) == IF sep = "T" THEN 84 ELSE 32

\* a > b for two timestamp texts, compared as text (BINARY collation)
text_gt(a, b) ==
    \/ a.date > b.date
    \/ /\ a.date = b.date
       /\ \/ SepCode(a.sep) > SepCode(b.sep)
          \/ SepCode(a.sep) = SepCode(b.sep) /\ a.time > b.time

\* generate_api_key(tier) with the fresh token tok
generate_api_key(tier, tok) ==
    LET normalized == normalize_tier(tier, "free")
        api_key == [prefix |-> normalized, token |-> tok]
    IN  [key |-> api_key, key_hash |-> sha256(api_key)]

NoPasswordHash == [scheme |-> "", digest |-> 0]  \* NULL password_hash

\* Passwords: 0 none, 1 shorter than 8 characters, 2 and 3 long enough.
PasswordInputs == 0..3

weak_password(password) == password = 0 \/ password = 1

hash_password(password) == [scheme |-> "pbkdf2_sha256", digest |-> password]

verify_password(password, stored_hash) ==
    /\ stored_hash.scheme = "pbkdf2_sha256"
    /\ stored_hash.digest = password

IsActiveIgnored(row) == TRUE

\* `is_active = 1`
IsActive(row) == row.is_active

\* verify_api_key(api_key) at time t: the row it returns, found = FALSE for None
verify_api_key(keys, api_key, t) ==
    IF api_key = NoKey
    THEN [found |-> FALSE, key_hash |-> NoHash, row |-> NoRow]
    ELSE LET key_hash == sha256(api_key) IN
         IF /\ key_hash \in DOMAIN keys
            /\ IsActive(keys[key_hash])
            /\ \/ keys[key_hash].expires_at = NoExpiry
               \/ text_gt(keys[key_hash].expires_at, sqlite_datetime_now(t))
         THEN [found |-> TRUE, key_hash |-> key_hash, row |-> keys[key_hash]]
         ELSE [found |-> FALSE, key_hash |-> NoHash, row |-> NoRow]

deactivate_nothing(keys, existing_key_hash) == keys

\* UPDATE api_keys SET is_active = 0 WHERE key_hash = ?
deactivate_existing(keys, existing_key_hash) ==
    [h \in DOMAIN keys |->
        IF h = existing_key_hash THEN [keys[h] EXCEPT !.is_active = FALSE] ELSE keys[h]]

\* DELETE FROM rate_limits WHERE key_hash = ?
delete_rate_limit(rows, key_hash) ==
    [h \in DOMAIN rows \ {key_hash} |-> rows[h]]

\* create_or_update_api_key(name, tier, conn, existing_key_hash) with the
\* fresh token tok
create_or_update_api_key(keys, rows, tier, existing_key_hash, tok) ==
    LET normalized_tier == normalize_tier(tier, "free")
        limit == rate_limit_for_tier(normalized_tier)
        keys1 == IF existing_key_hash # NoHash
                 THEN deactivate_existing(keys, existing_key_hash) ELSE keys
        rows1 == IF existing_key_hash # NoHash
                 THEN delete_rate_limit(rows, existing_key_hash) ELSE rows
        new == generate_api_key(normalized_tier, tok)
        record == [tier |-> normalized_tier, rate_limit |-> limit,
                   is_active |-> TRUE, is_admin |-> FALSE, expires_at |-> NoExpiry]
    IN  [api_keys |-> keys1 @@ (new.key_hash :> record), rate_limits |-> rows1,
         key |-> new.key, key_hash |-> new.key_hash, record |-> record]

\* upsert_user(email, key_hash, tier, password_hash_value, conn)
upsert_user(us, email, key_hash, tier, password_hash_value) ==
    LET normalized_tier == normalize_tier(tier, "free") IN
    IF email \in DOMAIN us
    THEN [us EXCEPT ![email] =
            [password_hash |-> IF password_hash_value # NoPasswordHash
                               THEN password_hash_value ELSE us[email].password_hash,
             key_hash |-> key_hash, tier |-> normalized_tier]]
    ELSE us @@ (email :> [password_hash |-> password_hash_value,
                          key_hash |-> key_hash, tier |-> normalized_tier])

apply_tier_only(keys, key_hash, tier) ==
    [h \in DOMAIN keys |->
        IF h = key_hash
        THEN [keys[h] EXCEPT !.tier = normalize_tier(tier, "free"), !.is_active = TRUE]
        ELSE keys[h]]

\* apply_tier_to_key_hash: the UPDATE (the row is then re-read by the caller)
apply_tier_to_key_hash(keys, key_hash, tier) ==
    LET normalized_tier == normalize_tier(tier, "free")
        limit == rate_limit_for_tier(normalized_tier)
    IN  [h \in DOMAIN keys |->
            IF h = key_hash
            THEN [keys[h] EXCEPT !.tier = normalized_tier, !.rate_limit = limit,
                                 !.is_active = TRUE]
            ELSE keys[h]]

(***************************************************************************)
(* Requests.  resp is the response of the last request, with the request's *)
(* inputs and the api_keys row of the presented key as it was on arrival.  *)
(***************************************************************************)
NoResp == [op |-> "none", status |-> 0, code |-> "", at |-> 0,
           header |-> NoKey, key_known |-> FALSE, key_row |-> NoRow,
           api_key |-> NoKey, tier |-> "", rate_limit |-> -1,
           req_tier |-> "", email |-> "", rl_changed |-> FALSE,
           stats |-> EmptyTable]

authVars == <<api_keys, users, billing_events, next_token, resp, issued, stripe_env>>

rateVars == <<rl_limit, rl_out, rl_calls, workers>>

\* The environment of a process without Stripe settings.
NoStripe == [module |-> FALSE, secret_key |-> FALSE, publishable_key |-> FALSE,
             webhook_secret |-> FALSE, price_basic |-> FALSE, price_pro |-> FALSE]

\* The environment of a deployment with every Stripe setting and the module.
FullStripe == [module |-> TRUE, secret_key |-> TRUE, publishable_key |-> TRUE,
               webhook_secret |-> TRUE, price_basic |-> TRUE, price_pro |-> TRUE]

AuthIdle ==
    /\ api_keys = EmptyTable
    /\ users = EmptyTable
    /\ billing_events = <<>>
    /\ next_token = 0
    /\ resp = NoResp
    /\ issued = EmptyTable
    /\ stripe_env = NoStripe

RateIdle ==
    /\ rl_limit = 0
    /\ rl_out = NoRateOut
    /\ rl_calls = EmptyTable
    /\ workers = EmptyTable

archiveVars == <<brief_releases, disk, archive_env, next_release, pub, view>>

variantVars == <<base_model, variant_out>>

monitorVars == <<alert_config, wssi_data, alert_history, alert_state, mon>>

historyVars == <<history_artifact, history_out>>

nonAuthVars == <<rateVars, archiveVars, variantVars, monitorVars, checkout_sessions,
                 historyVars>>

nonRateVars == <<authVars, archiveVars, variantVars, monitorVars, checkout_sessions,
                 historyVars>>

\* os.getenv of a variable that is not set
Unset == [kind |-> "unset", value |-> 0]

NoTime == [second |-> -1, micro |-> -1]

NoPub == [status |-> 0, code |-> "", release_id |-> 0, published_at |-> NoTime,
          env |-> Unset, before |-> EmptyTable, removed |-> {},
          failures |-> 0, keys |-> {}]

NoUrl == [release_id |-> 0, kind |-> "", variant |-> ""]

\* links.paid = None
NoLinks == [view_url |-> NoUrl, model_url |-> NoUrl]

NoContent == [release_id |-> 0, variant |-> "", kind |-> ""]

NoViewer == [tier |-> "", is_paid |-> FALSE, authenticated |-> FALSE]

NoView == [op |-> "none", status |-> 0, code |-> "", header |-> NoKey,
           key_known |-> FALSE, key_row |-> NoRow, release_id |-> 0,
           released |-> FALSE, variant |-> "", limit |-> 0, viewer |-> NoViewer,
           releases |-> <<>>, content |-> NoContent]

ArchiveIdle ==
    /\ brief_releases = EmptyTable
    /\ disk = {}
    /\ archive_env = [max_releases |-> Unset, publish_token |-> FALSE]
    /\ next_release = 0
    /\ pub = NoPub
    /\ view = NoView

NoModel == [top_themes |-> <<>>, alerts |-> [counts |-> 0, latest_rows |-> <<>>],
            correlations |-> <<>>, network |-> [nodes |-> <<>>, edges |-> <<>>],
            patterns |-> <<>>, indicator_appendix |-> <<>>, rest |-> 0]

NoVariantOut == [variant |-> "", input |-> NoModel, result |-> NoModel,
                 input_after |-> NoModel]

VariantIdle ==
    /\ base_model = NoModel
    /\ variant_out = NoVariantOut

\* No alerts.json thresholds, no snapshot, empty alerts.db, no poll yet.
NoData == [present |-> FALSE, wssi_value |-> 0, theme_signals |-> <<>>]

NoMon == [polls |-> 0, ran |-> FALSE, data |-> NoData, alerts |-> <<>>,
          sent |-> <<>>]

MonitorIdle ==
    /\ alert_config = [thresholds |-> EmptyTable, channels |-> {}]
    /\ wssi_data = NoData
    /\ alert_history = <<>>
    /\ alert_state = EmptyTable
    /\ mon = NoMon

\* wssi-history.json is in neither candidate directory.
NoArtifact == [kind |-> "missing", history |-> <<>>, has_history |-> FALSE,
               data |-> <<>>, has_data |-> FALSE]

NoHistoryOut == [days |-> 0, status |-> 0, code |-> "", history |-> <<>>,
                 count |-> 0, current |-> 0, source |-> ""]

\* Stripe holds no Checkout Session of this deployment, and nothing has
\* asked for the history.
CheckoutIdle ==
    /\ checkout_sessions = {}
    /\ history_artifact = NoArtifact
    /\ history_out = NoHistoryOut

NonAuthIdle == RateIdle /\ ArchiveIdle /\ VariantIdle /\ MonitorIdle /\ CheckoutIdle

NonRateIdle == AuthIdle /\ ArchiveIdle /\ VariantIdle /\ MonitorIdle /\ CheckoutIdle

\* The row of the presented key on arrival.
RowOf(keys, api_key) ==
    IF api_key # NoKey /\ sha256(api_key) \in DOMAIN keys
    THEN keys[sha256(api_key)] ELSE NoRow

KnownKey(keys, api_key) == api_key # NoKey /\ sha256(api_key) \in DOMAIN keys

Response(op, status, code, header) ==
    [NoResp EXCEPT !.op = op, !.status = status, !.code = code, !.at = now,
                   !.header = header, !.key_known = KnownKey(api_keys, header),
                   !.key_row = RowOf(api_keys, header)]

\* A request that is rejected before it touches the database.
Reject(op, status, code, header) ==
    /\ resp' = Response(op, status, code, header)
    /\ UNCHANGED <<now, api_keys, users, rate_limits, billing_events,
                   next_token, issued, stripe_env>>

EmailInputs == {"a@x.org", "A@X.org ", "b@x.org", "no-at-sign"}

TierInputs == SUPPORTED_TIERS \cup {"gold"}

\* `"@" not in email`
has_at(email) == email # "no-at-sign"

\* The key strings a client can present: none, a made-up one, the bootstrap
\* admin key and every key string generated so far.
KeyInputs ==
    {NoKey, InvalidKey, AdminKey}
        \cup {k \in [prefix : SUPPORTED_TIERS, token : 1..next_token] :
                  sha256(k) \in DOMAIN api_keys}

Issue(email, api_key) ==
    IF email \in DOMAIN issued
    THEN [issued EXCEPT ![email] = Append(@, api_key)]
    ELSE issued @@ (email :> <<api_key>>)

\* POST /api/v1/keys/request (op "keys_request"); register_legacy_auth calls
\* it after its password check (op "register").
request_api_key(op, email_in, tier_in, password) ==
    LET email == strip_lower(email_in) IN
    IF ~tier_pattern(tier_in)
    THEN Reject(op, 422, "VALIDATION_ERROR", NoKey)
    ELSE IF op = "register" /\ weak_password(password)
    THEN Reject(op, 422, "WEAK_PASSWORD", NoKey)
    ELSE IF ~has_at(email)
    THEN Reject(op, 422, "INVALID_EMAIL", NoKey)
    ELSE LET tier == normalize_tier(tier_in, "free")
             password_hash_value ==
                 IF password # 0 THEN hash_password(password) ELSE NoPasswordHash
             existing_key_hash ==
                 IF email \in DOMAIN users THEN users[email].key_hash ELSE NoHash
             created == create_or_update_api_key(api_keys, rate_limits, tier,
                                                 existing_key_hash, next_token + 1)
         IN  /\ next_token < MaxKeys
             /\ api_keys' = created.api_keys
             /\ rate_limits' = created.rate_limits
             /\ users' = upsert_user(users, email, created.key_hash, tier,
                                     password_hash_value)
             /\ next_token' = next_token + 1
             /\ issued' = Issue(email, created.key)
             /\ resp' = [Response(op, 200, "", NoKey) EXCEPT
                            !.api_key = created.key, !.tier = tier,
                            !.rate_limit = created.record.rate_limit,
                            !.req_tier = tier_in, !.email = email]
             /\ UNCHANGED <<now, billing_events, stripe_env>>

KeysRequest(email_in, tier_in, password) ==
    /\ request_api_key("keys_request", email_in, tier_in, password)
    /\ UNCHANGED nonAuthVars

Register(email_in, tier_in, password) ==
    /\ request_api_key("register", email_in, tier_in, password)
    /\ UNCHANGED nonAuthVars

\* POST /api/v1/auth/login
login_legacy_auth(email_in, password) ==
    LET email == strip_lower(email_in) IN
    /\ IF email \notin DOMAIN users
       THEN Reject("login", 401, "AUTH_INVALID", NoKey)
       ELSE IF users[email].password_hash = NoPasswordHash
       THEN Reject("login", 401, "AUTH_INVALID", NoKey)
       ELSE IF ~verify_password(password, users[email].password_hash)
       THEN Reject("login", 401, "AUTH_INVALID", NoKey)
       ELSE LET user_tier == normalize_tier(users[email].tier, "free")
                created == create_or_update_api_key(api_keys, rate_limits, user_tier,
                                                    users[email].key_hash, next_token + 1)
            IN  /\ next_token < MaxKeys
                /\ api_keys' = created.api_keys
                /\ rate_limits' = created.rate_limits
                /\ users' = [users EXCEPT ![email].key_hash = created.key_hash,
                                          ![email].tier = created.record.tier]
                /\ next_token' = next_token + 1
                /\ issued' = Issue(email, created.key)
                /\ resp' = [Response("login", 200, "", NoKey) EXCEPT
                               !.api_key = created.key, !.tier = created.record.tier,
                               !.rate_limit = created.record.rate_limit,
                               !.email = email]
                /\ UNCHANGED <<now, billing_events, stripe_env>>
    /\ UNCHANGED nonAuthVars

\* POST /api/v1/auth/key-login
login_with_api_key(api_key) ==
    LET key_record == verify_api_key(api_keys, api_key, now) IN
    /\ IF ~key_record.found
       THEN Reject("key_login", 401, "AUTH_INVALID", api_key)
       ELSE /\ resp' = [Response("key_login", 200, "", api_key) EXCEPT
                           !.tier = key_record.row.tier,
                           !.rate_limit = key_record.row.rate_limit]
            /\ UNCHANGED <<now, api_keys, users, rate_limits, billing_events,
                           next_token, issued, stripe_env>>
    /\ UNCHANGED nonAuthVars

\* The dependency get_current_key of a protected data route.
require_current_key(x_api_key) ==
       IF x_api_key = NoKey
       THEN Reject("data", 401, "AUTH_MISSING", x_api_key)
       ELSE LET key_data == verify_api_key(api_keys, x_api_key, now) IN
            IF ~key_data.found
            THEN Reject("data", 401, "AUTH_INVALID", x_api_key)
            ELSE LET limited == check_rate_limit(rate_limits, key_data.key_hash,
                                                 key_data.row.rate_limit, now)
                 IN  /\ limited.allowed =>
                            limited.rows[key_data.key_hash].requests_count <= MaxRequests
                     /\ rate_limits' = limited.rows
                     /\ resp' = [Response("data",
                                          IF limited.allowed THEN 200 ELSE 429,
                                          IF limited.allowed THEN "" ELSE "RATE_LIMIT_EXCEEDED",
                                          x_api_key)
                                    EXCEPT !.rate_limit = limited.limit,
                                           !.rl_changed = (limited.rows # rate_limits)]
                     /\ UNCHANGED <<now, api_keys, users, billing_events,
                                    next_token, issued, stripe_env>>

\* A request to a protected data route: the dependency get_current_key,
\* then the route, which serves its data.
get_current_key(x_api_key) ==
    /\ require_current_key(x_api_key)
    /\ UNCHANGED nonAuthVars

\* POST /admin/create-key; expires_days 0 stands for None
create_api_key(admin_key, tier_in, expires_days) ==
    /\ IF ~tier_pattern(tier_in)
       THEN Reject("admin_create", 422, "VALIDATION_ERROR", admin_key)
       ELSE IF admin_key = NoKey
       THEN Reject("admin_create", 401, "ADMIN_KEY_REQUIRED", admin_key)
       ELSE IF ~(/\ sha256(admin_key) \in DOMAIN api_keys
                 /\ api_keys[sha256(admin_key)].is_admin
                 /\ api_keys[sha256(admin_key)].is_active)
       THEN Reject("admin_create", 403, "ADMIN_INVALID", admin_key)
       ELSE LET normalized_tier == normalize_tier(tier_in, "free")
                new == generate_api_key(normalized_tier, next_token + 1)
                expires_at == IF expires_days # 0
                              THEN isoformat(now + expires_days * TicksPerDay)
                              ELSE NoExpiry
            IN  /\ next_token < MaxKeys
                /\ api_keys' = api_keys @@
                       (new.key_hash :> [tier |-> normalized_tier,
                                         rate_limit |-> rate_limit_for_tier(normalized_tier),
                                         is_active |-> TRUE, is_admin |-> FALSE,
                                         expires_at |-> expires_at])
                /\ next_token' = next_token + 1
                /\ resp' = [Response("admin_create", 200, "", admin_key) EXCEPT
                               !.api_key = new.key, !.tier = normalized_tier,
                               !.req_tier = tier_in]
                /\ UNCHANGED <<now, users, rate_limits, billing_events, issued,
                               stripe_env>>
    /\ UNCHANGED nonAuthVars

\* Time passes between requests.
Tick ==
    /\ now < MaxTime
    /\ now' = now + 1
    /\ UNCHANGED <<api_keys, users, rate_limits, billing_events, next_token,
                   resp, issued, stripe_env>>
    /\ UNCHANGED nonAuthVars

\* init_db(): the bootstrap admin key is the only row.
InitAuth ==
    /\ now = 0
    /\ api_keys = (sha256(AdminKey) :>
                      [tier |-> "enterprise", rate_limit |-> EnterpriseLimit,
                       is_active |-> TRUE, is_admin |-> TRUE, expires_at |-> NoExpiry])
    /\ users = EmptyTable
    /\ rate_limits = EmptyTable
    /\ billing_events = <<>>
    /\ next_token = 0
    /\ resp = NoResp
    /\ issued = EmptyTable
    /\ stripe_env = NoStripe
    /\ NonAuthIdle

\* import_stripe(): the module, when stripe_enabled() and it can be imported
import_stripe(env) == env.secret_key /\ env.publishable_key /\ env.module

CheckoutCompleted == "checkout.session.completed"

EventTypeInputs == {CheckoutCompleted, "invoice.paid"}

\* metadata.target_tier of an event; "" stands for an absent value
TargetTierInputs == {"", "free", "basic", " PRO ", "enterprise", "gold"}

\* metadata.key_hash of an event: absent, the hash of no key, or a key's hash
KeyHashInputs == {NoHash, sha256(InvalidKey)} \cup (DOMAIN api_keys \ {sha256(AdminKey)})

\* UPDATE users SET tier = ? WHERE key_hash = ?
update_users_tier(us, key_hash, tier) ==
    [e \in DOMAIN us |->
        IF us[e].key_hash = key_hash THEN [us[e] EXCEPT !.tier = tier] ELSE us[e]]

\* POST /api/v1/billing/webhook.  signed: Stripe's construct_event accepts
\* the payload and its Stripe-Signature header.
billing_webhook(signed, event_type, key_hash, target_tier_in) ==
    /\ IF ~import_stripe(stripe_env)
       THEN Reject("webhook", 503, "BILLING_NOT_CONFIGURED", NoKey)
       ELSE IF ~(stripe_env.webhook_secret /\ stripe_env.secret_key)
       THEN Reject("webhook", 503, "BILLING_NOT_CONFIGURED", NoKey)
       ELSE IF ~signed
       THEN Reject("webhook", 400, "WEBHOOK_INVALID", NoKey)
       ELSE IF event_type = CheckoutCompleted
       THEN LET target_tier == normalize_tier(target_tier_in, "free") IN
            IF key_hash # NoHash /\ target_tier \in {"basic", "pro", "enterprise"}
            THEN IF key_hash \notin DOMAIN api_keys
                 THEN Reject("webhook", 404, "KEY_NOT_FOUND", NoKey)
                 ELSE LET keys1 == apply_tier_to_key_hash(api_keys, key_hash, target_tier)
                          updated_key == keys1[key_hash]
                      IN  /\ Len(billing_events) < MaxEvents
                          /\ api_keys' = keys1
                          /\ users' = update_users_tier(users, key_hash, updated_key.tier)
                          /\ billing_events' = Append(billing_events,
                                 [event_type |-> event_type, key_hash |-> key_hash,
                                  tier |-> updated_key.tier])
                          /\ resp' = [Response("webhook", 200, "", NoKey) EXCEPT
                                         !.tier = updated_key.tier,
                                         !.rate_limit = updated_key.rate_limit,
                                         !.req_tier = target_tier_in]
                          /\ UNCHANGED <<now, rate_limits, next_token, issued, stripe_env>>
            ELSE Reject("webhook", 200, "", NoKey)
       ELSE /\ Len(billing_events) < MaxEvents
            /\ billing_events' = Append(billing_events,
                   [event_type |-> event_type, key_hash |-> NoHash, tier |-> ""])
            /\ resp' = Response("webhook", 200, "", NoKey)
            /\ UNCHANGED <<now, api_keys, users, rate_limits, next_token, issued,
                           stripe_env>>
    /\ UNCHANGED nonAuthVars

\* The Stripe settings a deployment can have.
StripeEnvs == [module : BOOLEAN, secret_key : BOOLEAN, publishable_key : BOOLEAN,
               webhook_secret : BOOLEAN, price_basic : BOOLEAN, price_pro : BOOLEAN]

\* init_db() in a deployment with any Stripe settings.
InitBilling ==
    /\ now = 0
    /\ api_keys = (sha256(AdminKey) :>
                      [tier |-> "enterprise", rate_limit |-> EnterpriseLimit,
                       is_active |-> TRUE, is_admin |-> TRUE, expires_at |-> NoExpiry])
    /\ users = EmptyTable
    /\ rate_limits = EmptyTable
    /\ billing_events = <<>>
    /\ next_token = 0
    /\ resp = NoResp
    /\ issued = EmptyTable
    /\ stripe_env \in {env \in StripeEnvs : env.price_basic /\ env.price_pro}
    /\ NonAuthIdle

(***************************************************************************)
(* SpecBilling: every operation that writes an api_keys row.               *)
(***************************************************************************)
NextBilling ==
    \/ /\ next_token < MaxBillingKeys
       /\ \E t \in {"free", "pro", "gold"} : KeysRequest("a@x.org", t, 0)
    \/ /\ next_token < MaxBillingKeys
       /\ \E t \in {"basic", "enterprise"} : Register("a@x.org", t, 2)
    \/ /\ next_token < MaxBillingKeys
       /\ login_legacy_auth("a@x.org", 2)
    \/ /\ next_token < MaxBillingKeys
       /\ \E t \in {"free", "enterprise", "gold"}, d \in 0..MaxExpiresDays :
              create_api_key(AdminKey, t, d)
    \/ \E signed \in BOOLEAN, ty \in EventTypeInputs, h \in KeyHashInputs,
          t \in TargetTierInputs : billing_webhook(signed, ty, h, t)

SpecBilling == InitBilling /\ [][NextBilling]_vars

(***************************************************************************)
(* The brief archive: releases on disk and in brief_releases.              *)
(***************************************************************************)
DefaultMaxReleases == 200
MinMaxReleases == 10
MaxMaxReleases == 2000

\* int(raw): ok = FALSE stands for ValueError
parse_int(raw) ==
    IF raw.kind = "int" THEN [ok |-> TRUE, value |-> raw.value]
                        ELSE [ok |-> FALSE, value |-> 0]

\* max_archive_releases()
max_archive_releases(env) ==
    LET raw == IF env.max_releases = Unset
               THEN [kind |-> "int", value |-> DefaultMaxReleases]
               ELSE env.max_releases
        parsed == parse_int(raw)
        value == IF parsed.ok THEN parsed.value ELSE DefaultMaxReleases
    IN  Max(MinMaxReleases, Min(value, MaxMaxReleases))

\* iso_utc_now() at tick t: "<second>Z" when the microsecond part is zero
\* (isoformat() leaves it out), "<second>.<micro>Z" otherwise.
iso_utc_now(t) == [second |-> t \div MicrosPerSecond, micro |-> t % MicrosPerSecond]

\* a > b for two published_at texts: 'Z' (0x5A) sorts after '.' (0x2E)
published_gt(a, b) ==
    \/ a.second > b.second
    \/ /\ a.second = b.second
       /\ \/ a.micro = 0 /\ b.micro # 0
          \/ a.micro # 0 /\ b.micro # 0 /\ a.micro > b.micro

ArtifactNames == {"free.html", "paid.html", "free.json", "paid.json"}

\* release_dir / name
release_path(release_id, name) == [dir |-> release_id, name |-> name]

\* SELECT ... FROM brief_releases ORDER BY published_at DESC
order_by_published_at_desc(rows) ==
    LET rank(r) == 1 + Cardinality({q \in DOMAIN rows :
                        \/ published_gt(rows[q].published_at, rows[r].published_at)
                        \/ /\ rows[q].published_at = rows[r].published_at
                           /\ q > r})
    IN  [i \in 1..Cardinality(DOMAIN rows) |-> CHOOSE r \in DOMAIN rows : rank(r) = i]

stale_rows_keep_one_more(ordered, keep) == SubSeq(ordered, keep + 2, Len(ordered))

\* rows[keep:]
stale_rows(ordered, keep) == SubSeq(ordered, keep + 1, Len(ordered))

\* enforce_archive_retention(conn): the rows and files left, and the
\* release ids it deleted
enforce_archive_retention(rows, files, env) ==
    LET keep == max_archive_releases(env)
        ordered == order_by_published_at_desc(rows)
        stale == stale_rows(ordered, keep)
        stale_ids == {stale[i] : i \in 1..Len(stale)}
        unlinked == {rows[r].free_html_path : r \in stale_ids}
                        \cup {rows[r].paid_html_path : r \in stale_ids}
                        \cup {rows[r].free_json_path : r \in stale_ids}
                        \cup {rows[r].paid_json_path : r \in stale_ids}
        globbed == {f \in files : f.dir \in stale_ids}
    IN  [rows |-> [r \in DOMAIN rows \ stale_ids |-> rows[r]],
         disk |-> files \ (unlinked \cup globbed),
         removed |-> stale_ids]

\* The analytics artifacts build_brief_archive_model() loads.
AllArtifacts == {"wssi-latest", "correlations", "alerts", "network", "patterns",
                 "wssi-history"}

\* Which artifacts are on disk when a publish request arrives.
ArtifactInputs == {AllArtifacts, AllArtifacts \ {"wssi-latest"}, AllArtifacts \ {"alerts"}}

\* X-Brief-Publish-Token: absent, not the configured token, the configured token
PublishTokenInputs == {"", "wrong", "right"}

\* release_date of the payload: absent, well formed, malformed
ReleaseDateInputs == {"", "2026-01-01", "2026-1-1", "01/01/2026"}

normalize_release_date_lenient(value) ==
    [ok |-> TRUE, text |-> IF value = "" THEN "today" ELSE "2026-01-01"]

\* normalize_release_date: strptime(text, "%Y-%m-%d") also takes a month and
\* a day of one digit and writes them back with two; "" stands for None.
normalize_release_date(value) ==
    CASE value = "" -> [ok |-> TRUE, text |-> "today"]
      [] value \in {"2026-01-01", "2026-1-1"} -> [ok |-> TRUE, text |-> "2026-01-01"]
      [] OTHER -> [ok |-> FALSE, text |-> ""]

\* How the database behaves during persist_brief_release.
FailureInputs == {"none", "insert", "commit"}

\* The keys of the JSON object a successful publish returns.
PublishResponseKeys == {"status", "release", "archive_page_url", "variant_urls"}

PublishOutcome(status, code) ==
    [NoPub EXCEPT !.status = status, !.code = code, !.failures = pub.failures]

\* A publish request that is rejected before persist_brief_release.
RejectPublish(status, code) ==
    /\ pub' = PublishOutcome(status, code)
    /\ UNCHANGED <<now, brief_releases, disk, archive_env, next_release, view>>

\* POST /api/v1/briefs/releases/publish: require_brief_publish_token, then
\* publish_brief_release with persist_brief_release and the retention pass.
publish_brief_release(token, release_date_in, artifacts, failure) ==
    /\ IF ~archive_env.publish_token
       THEN RejectPublish(503, "BRIEF_ARCHIVE_NOT_CONFIGURED")
       ELSE IF token # "right"
       THEN RejectPublish(401, "PUBLISH_TOKEN_INVALID")
       ELSE IF ~normalize_release_date(release_date_in).ok
       THEN RejectPublish(422, "INVALID_RELEASE_DATE")
       ELSE IF artifacts # AllArtifacts
       THEN RejectPublish(503, "DATA_UNAVAILABLE")
       ELSE LET release_id == next_release + 1
                published_at == iso_utc_now(now)
                written == disk \cup {release_path(release_id, n) : n \in ArtifactNames}
                row == [release_date |-> normalize_release_date(release_date_in).text,
                        published_at |-> published_at,
                        free_html_path |-> release_path(release_id, "free.html"),
                        paid_html_path |-> release_path(release_id, "paid.html"),
                        free_json_path |-> release_path(release_id, "free.json"),
                        paid_json_path |-> release_path(release_id, "paid.json")]
                inserted == brief_releases @@ (release_id :> row)
                kept == enforce_archive_retention(inserted, written, archive_env)
                outcome(status, code, removed) ==
                    [PublishOutcome(status, code) EXCEPT
                        !.release_id = release_id, !.published_at = published_at,
                        !.env = archive_env.max_releases,
                        !.before = brief_releases, !.removed = removed,
                        !.failures = IF failure = "none" THEN @ ELSE @ + 1]
            IN  /\ next_release < MaxPublishes
                /\ failure # "none" => pub.failures < MaxFailures
                /\ next_release' = release_id
                /\ now' = now + 1
                /\ CASE failure = "insert" ->
                            /\ disk' = written
                            /\ brief_releases' = brief_releases
                            /\ pub' = outcome(500, "sqlite3.Error", {})
                     [] failure = "commit" ->
                            /\ disk' = kept.disk
                            /\ brief_releases' = brief_releases
                            /\ pub' = outcome(500, "sqlite3.Error", {})
                     [] OTHER ->
                            /\ disk' = kept.disk
                            /\ brief_releases' = kept.rows
                            /\ pub' = IF release_id \in DOMAIN kept.rows
                                      THEN [outcome(200, "published", kept.removed)
                                               EXCEPT !.keys = PublishResponseKeys]
                                      ELSE outcome(500, "RELEASE_PERSIST_FAILED",
                                                   kept.removed)
                /\ UNCHANGED <<archive_env, view>>
    /\ UNCHANGED <<api_keys, users, rate_limits, billing_events, next_token, resp,
                   issued, stripe_env>>
    /\ UNCHANGED <<rateVars, variantVars, monitorVars, checkout_sessions, historyVars>>

\* The values WSSI_BRIEF_ARCHIVE_MAX_RELEASES can have.
MaxReleasesInputs ==
    {Unset, [kind |-> "text", value |-> 0], [kind |-> "int", value |-> 0],
     [kind |-> "int", value |-> MinMaxReleases + 1],
     [kind |-> "int", value |-> MaxMaxReleases + 1]}

\* The process is restarted with other settings.
Reconfigure(raw, token) ==
    /\ archive_env' = [max_releases |-> raw, publish_token |-> token]
    /\ archive_env' # archive_env
    /\ UNCHANGED <<now, brief_releases, disk, next_release, pub, view>>
    /\ UNCHANGED <<api_keys, users, rate_limits, billing_events, next_token, resp,
                   issued, stripe_env>>
    /\ UNCHANGED <<rateVars, variantVars, monitorVars, checkout_sessions, historyVars>>

\* The operator lowers the retention cap of a running archive.
LowerCap(raw) ==
    /\ archive_env.publish_token
    /\ max_archive_releases([archive_env EXCEPT !.max_releases = raw])
           < max_archive_releases(archive_env)
    /\ Reconfigure(raw, TRUE)

\* A deployment with an empty archive and any settings.
InitArchive ==
    /\ now = 0
    /\ rate_limits = EmptyTable
    /\ brief_releases = EmptyTable
    /\ disk = {}
    /\ archive_env \in [max_releases : MaxReleasesInputs, publish_token : BOOLEAN]
    /\ next_release = 0
    /\ pub = NoPub
    /\ view = NoView
    /\ AuthIdle
    /\ RateIdle
    /\ VariantIdle
    /\ MonitorIdle
    /\ CheckoutIdle

(***************************************************************************)
(* SpecArchive: publish requests, with and without database failures.      *)
(***************************************************************************)
NextArchive ==
    \/ \E token \in PublishTokenInputs, d \in {"", "01/01/2026"},
          a \in ArtifactInputs, f \in FailureInputs :
           publish_brief_release(token, d, a, f)
    \/ \E raw \in MaxReleasesInputs : LowerCap(raw)

SpecArchive == InitArchive /\ [][NextArchive]_vars

(***************************************************************************)
(* Archive read endpoints.  view is the response of the last one, with the *)
(* request's inputs and the api_keys row of the presented key on arrival.  *)
(***************************************************************************)
ListLimitMin == 1
ListLimitMax == 200

\* "/api/v1/briefs/releases/{release_id}/{kind}?variant={variant}"
archive_url(release_id, kind, variant) ==
    [release_id |-> release_id, kind |-> kind, variant |-> variant]

archive_links_for_release(release_id, is_paid) ==
    [free |-> [view_url |-> archive_url(release_id, "view", "free"),
               model_url |-> archive_url(release_id, "model", "free")],
     paid |-> IF is_paid
              THEN [view_url |-> archive_url(release_id, "view", "paid"),
                    model_url |-> archive_url(release_id, "model", "paid")]
              ELSE NoLinks]

serialize_release_row(release_id, row, is_paid) ==
    [release_id |-> release_id, published_at |-> row.published_at,
     links |-> archive_links_for_release(release_id, is_paid),
     locked_paid |-> ~is_paid]

\* A resolver that meters like get_current_key: a key that check_rate_limit
\* would refuse is demoted to the unauthenticated free viewer.
get_optional_key_for_archive_metered(x_api_key) ==
    IF x_api_key = NoKey
    THEN [tier |-> "free", is_paid |-> FALSE, authenticated |-> FALSE]
    ELSE LET key_data == verify_api_key(api_keys, x_api_key, now) IN
         IF ~key_data.found
         THEN [tier |-> "free", is_paid |-> FALSE, authenticated |-> FALSE]
         ELSE IF ~check_rate_limit(rate_limits, key_data.key_hash,
                                   key_data.row.rate_limit, now).allowed
         THEN [tier |-> "free", is_paid |-> FALSE, authenticated |-> FALSE]
         ELSE LET tier == normalize_tier(key_data.row.tier, "free") IN
              [tier |-> tier, is_paid |-> is_paid_tier(tier), authenticated |-> TRUE]

\* get_optional_key_for_archive: the viewer_ctx of a request
get_optional_key_for_archive(x_api_key) ==
    IF x_api_key = NoKey
    THEN [tier |-> "free", is_paid |-> FALSE, authenticated |-> FALSE]
    ELSE LET key_data == verify_api_key(api_keys, x_api_key, now) IN
         IF ~key_data.found
         THEN [tier |-> "free", is_paid |-> FALSE, authenticated |-> FALSE]
         ELSE LET tier == normalize_tier(key_data.row.tier, "free") IN
              [tier |-> tier, is_paid |-> is_paid_tier(tier), authenticated |-> TRUE]

\* normalize_archive_variant: ok = FALSE stands for 422 INVALID_VARIANT
normalize_archive_variant(raw_variant) ==
    LET variant == strip_lower(IF raw_variant = "" THEN "free" ELSE raw_variant)
    IN  [ok |-> variant \in {"free", "paid"}, variant |-> variant]

\* require_paid_archive_variant: the status it raises, 0 when it returns
require_paid_archive_variant(viewer_ctx) ==
    IF viewer_ctx.is_paid THEN 0
    ELSE IF viewer_ctx.authenticated THEN 403
    ELSE 402

\* The variant query parameter; "" stands for an absent one
VariantInputs == {"", "free", "paid", " PAID ", "gold"}

\* The limit query parameter of the release list
LimitInputs == {0, 1, 50}

\* The release ids a client can ask for: one that was never generated, and
\* every id generated so far
ReleaseIdInputs == 0..next_release

ArchiveView(op, status, code, header, viewer_ctx) ==
    [NoView EXCEPT !.op = op, !.status = status, !.code = code, !.header = header,
                   !.key_known = KnownKey(api_keys, header),
                   !.key_row = RowOf(api_keys, header),
                   !.viewer = viewer_ctx]

\* Archive reads change nothing but the response.
ArchiveReadOnly ==
    /\ UNCHANGED <<now, api_keys, users, rate_limits, billing_events, next_token,
                   resp, issued, stripe_env>>
    /\ UNCHANGED <<brief_releases, disk, archive_env, next_release, pub>>
    /\ UNCHANGED <<rateVars, variantVars, monitorVars, checkout_sessions, historyVars>>

\* GET /api/v1/briefs/releases
list_brief_releases(x_api_key, limit) ==
    LET viewer_ctx == get_optional_key_for_archive(x_api_key)
        normalized_limit == Max(ListLimitMin, Min(limit, ListLimitMax))
        ordered == order_by_published_at_desc(brief_releases)
        rows == SubSeq(ordered, 1, Min(normalized_limit, Len(ordered)))
    IN  /\ view' = [ArchiveView("list", 200, "", x_api_key, viewer_ctx) EXCEPT
                       !.limit = normalized_limit,
                       !.releases = [i \in 1..Len(rows) |->
                           serialize_release_row(rows[i], brief_releases[rows[i]],
                                                 viewer_ctx.is_paid)]]
        /\ ArchiveReadOnly

\* GET /api/v1/briefs/releases/{release_id}
get_brief_release_detail(x_api_key, release_id) ==
    LET viewer_ctx == get_optional_key_for_archive(x_api_key)
        found == release_id \in DOMAIN brief_releases
        answer == IF ~found
                  THEN ArchiveView("detail", 404, "RELEASE_NOT_FOUND", x_api_key, viewer_ctx)
                  ELSE [ArchiveView("detail", 200, "", x_api_key, viewer_ctx) EXCEPT
                           !.releases = <<serialize_release_row(release_id,
                                              brief_releases[release_id],
                                              viewer_ctx.is_paid)>>]
    IN  /\ view' = [answer EXCEPT !.release_id = release_id, !.released = found]
        /\ ArchiveReadOnly

\* GET /api/v1/briefs/releases/{release_id}/view (kind "html") and
\* .../model (kind "json")
get_brief_release_variant(op, kind, x_api_key, release_id, variant_in) ==
    LET viewer_ctx == get_optional_key_for_archive(x_api_key)
        normalized == normalize_archive_variant(variant_in)
        found == release_id \in DOMAIN brief_releases
        refused == IF normalized.ok /\ normalized.variant = "paid"
                   THEN require_paid_archive_variant(viewer_ctx) ELSE 0
        file_path == release_path(release_id,
                         IF normalized.variant = "paid"
                         THEN (IF kind = "html" THEN "paid.html" ELSE "paid.json")
                         ELSE (IF kind = "html" THEN "free.html" ELSE "free.json"))
        answer ==
            IF ~normalized.ok
            THEN ArchiveView(op, 422, "INVALID_VARIANT", x_api_key, viewer_ctx)
            ELSE IF refused # 0
            THEN ArchiveView(op, refused, "UPGRADE_REQUIRED", x_api_key, viewer_ctx)
            ELSE IF ~found
            THEN ArchiveView(op, 404, "RELEASE_NOT_FOUND", x_api_key, viewer_ctx)
            ELSE IF file_path \notin disk
            THEN ArchiveView(op, 404, "RELEASE_ARTIFACT_MISSING", x_api_key, viewer_ctx)
            ELSE [ArchiveView(op, 200, "", x_api_key, viewer_ctx) EXCEPT
                     !.content = [release_id |-> release_id,
                                  variant |-> normalized.variant, kind |-> kind]]
    IN  /\ view' = [answer EXCEPT !.release_id = release_id, !.released = found,
                                  !.variant = variant_in]
        /\ ArchiveReadOnly

view_brief_release_html(x_api_key, release_id, variant_in) ==
    get_brief_release_variant("view", "html", x_api_key, release_id, variant_in)

get_brief_release_model(x_api_key, release_id, variant_in) ==
    get_brief_release_variant("model", "json", x_api_key, release_id, variant_in)

\* A deployment with Stripe and the publish token configured, an empty
\* archive and the bootstrap admin key.
InitArchiveRead ==
    /\ now = 0
    /\ api_keys = (sha256(AdminKey) :>
                      [tier |-> "enterprise", rate_limit |-> EnterpriseLimit,
                       is_active |-> TRUE, is_admin |-> TRUE, expires_at |-> NoExpiry])
    /\ users = EmptyTable
    /\ rate_limits = EmptyTable
    /\ billing_events = <<>>
    /\ next_token = 0
    /\ resp = NoResp
    /\ issued = EmptyTable
    /\ stripe_env = FullStripe
    /\ brief_releases = EmptyTable
    /\ disk = {}
    /\ archive_env = [max_releases |-> Unset, publish_token |-> TRUE]
    /\ next_release = 0
    /\ pub = NoPub
    /\ view = NoView
    /\ RateIdle
    /\ VariantIdle
    /\ MonitorIdle
    /\ CheckoutIdle

(***************************************************************************)
(* SpecArchiveRead: viewers of every kind read the archive while keys are  *)
(* issued, rotated and upgraded and releases are published.                *)
(***************************************************************************)
NextArchiveRead ==
    \/ /\ next_token < MaxBillingKeys
       /\ KeysRequest("a@x.org", "free", 0)
    \/ \E h \in KeyHashInputs : billing_webhook(TRUE, CheckoutCompleted, h, "basic")
    \/ /\ next_release < MaxReadReleases
       /\ publish_brief_release("right", "", AllArtifacts, "none")
    \/ \E k \in KeyInputs, limit \in LimitInputs : list_brief_releases(k, limit)
    \/ \E k \in KeyInputs, r \in ReleaseIdInputs : get_brief_release_detail(k, r)
    \/ \E k \in KeyInputs, r \in ReleaseIdInputs, v \in VariantInputs :
           view_brief_release_html(k, r, v)
    \/ \E k \in KeyInputs, r \in ReleaseIdInputs, v \in VariantInputs :
           get_brief_release_model(k, r, v)

SpecArchiveRead == InitArchiveRead /\ [][NextArchiveRead]_vars

(***************************************************************************)
(* apply_brief_variant.  A model is the dict build_brief_archive_model()   *)
(* returns: the lists the variants cut, and rest for all its other keys.   *)
(***************************************************************************)
FreeTopThemes == 5
FreeAlertRows == 3
FreeCorrelations == 1
FreeNetworkNodes == 3
FreeNetworkEdges == 2
FreePatterns == 1
FreeAppendixRows == 1
FreeIndicatorDetails == 2

\* json.dumps(model) and json.loads(text) on JSON-native values
json_dumps(value) == [text |-> value]

json_loads(s) == s.text

\* A copy that shares the nested dicts and lists with its source.
shallow_copy(model) == [value |-> model, shares_nested |-> TRUE]

\* json.loads(json.dumps(model)): a copy that shares nothing with model
deep_copy(model) == [value |-> json_loads(json_dumps(model)), shares_nested |-> FALSE]

\* seq[:n]
slice(seq, n) == SubSeq(seq, 1, Min(n, Len(seq)))

PaidTierContext == [tier |-> "paid", is_paid |-> TRUE, report_depth |-> "full"]

FreeTierContext ==
    [tier |-> "free", is_paid |-> FALSE, report_depth |-> "limited",
     hidden_sections |-> <<"full-correlations", "full-network", "full-patterns",
                           "full-indicator-appendix">>,
     upgrade_message |-> "Upgrade required for full archive detail."]

\* apply_brief_variant(model, variant): the dict it returns, and the caller's
\* model as it is after the call
apply_brief_variant(model, variant) ==
    IF variant = "paid"
    THEN LET paid_model == deep_copy(model) IN
         [result |-> ("tier_context" :> PaidTierContext) @@ paid_model.value,
          input_after |-> model]
    ELSE LET copy == deep_copy(model)
             m0 == copy.value
             appendix == slice(m0.indicator_appendix, FreeAppendixRows)
             free_model ==
                 [m0 EXCEPT
                    !.top_themes = slice(@, FreeTopThemes),
                    !.alerts.latest_rows = slice(@, FreeAlertRows),
                    !.correlations = slice(@, FreeCorrelations),
                    !.network.nodes = slice(@, FreeNetworkNodes),
                    !.network.edges = slice(@, FreeNetworkEdges),
                    !.patterns = slice(@, FreePatterns),
                    !.indicator_appendix =
                        IF appendix # <<>>
                        THEN [appendix EXCEPT ![1].indicator_details =
                                                  slice(@, FreeIndicatorDetails)]
                        ELSE appendix]
             \* assignments through free_model["alerts"], free_model["network"]
             \* and free_model["indicator_appendix"][0] reach the caller's
             \* model when the copy shares them
             reached ==
                 [model EXCEPT
                    !.alerts.latest_rows = free_model.alerts.latest_rows,
                    !.network.nodes = free_model.network.nodes,
                    !.network.edges = free_model.network.edges,
                    !.indicator_appendix =
                        IF @ # <<>>
                        THEN [@ EXCEPT ![1].indicator_details =
                                           slice(@, FreeIndicatorDetails)]
                        ELSE @]
         IN  [result |-> ("tier_context" :> FreeTierContext) @@ free_model,
              input_after |-> IF copy.shares_nested THEN reached ELSE model]

\* <<1, ..., n>>: n distinct rows
Items(n) == [i \in 1..n |-> i]

\* The lengths tried for a list that the free variant cuts to limit rows.
Lengths(limit) == {0, limit, limit + ExtraItems}

\* The models build_brief_archive_model() can return, up to the lengths of
\* their lists.
ModelInputs ==
    {[top_themes |-> Items(t),
      alerts |-> [counts |-> a, latest_rows |-> Items(a)],
      correlations |-> Items(c),
      network |-> [nodes |-> Items(n), edges |-> Items(e)],
      patterns |-> Items(p),
      indicator_appendix |->
          [i \in 1..x |-> [theme_id |-> i,
                           indicator_details |-> IF i = 1 THEN Items(d) ELSE Items(i)]],
      rest |-> t] :
        t \in Lengths(FreeTopThemes), a \in Lengths(FreeAlertRows),
        c \in Lengths(FreeCorrelations), n \in Lengths(FreeNetworkNodes),
        e \in Lengths(FreeNetworkEdges), p \in Lengths(FreePatterns),
        x \in Lengths(FreeAppendixRows), d \in Lengths(FreeIndicatorDetails)}

InitVariant ==
    /\ now = 0
    /\ rate_limits = EmptyTable
    /\ base_model \in ModelInputs
    /\ variant_out = NoVariantOut
    /\ AuthIdle
    /\ RateIdle
    /\ ArchiveIdle
    /\ MonitorIdle
    /\ CheckoutIdle

\* One call apply_brief_variant(base_model, variant).
ApplyVariant(variant) ==
    LET out == apply_brief_variant(base_model, variant) IN
    /\ variant_out' = [variant |-> variant, input |-> base_model,
                       result |-> out.result, input_after |-> out.input_after]
    /\ base_model' = out.input_after
    /\ UNCHANGED <<now, rate_limits>>
    /\ UNCHANGED <<authVars, rateVars, archiveVars, monitorVars, checkout_sessions,
                   historyVars>>

(***************************************************************************)
(* SpecVariant: the two variants of every model.                           *)
(***************************************************************************)
NextVariant == \E variant \in {"free", "paid"} : ApplyVariant(variant)

SpecVariant == InitVariant /\ [][NextVariant]_vars

(***************************************************************************)
(* SpecAccess: protected data routes.  One user requests keys, the admin   *)
(* creates keys with and without an expiry, clients present keys to a      *)
(* data route, and the clock advances.                                     *)
(***************************************************************************)
NextAccess ==
    \/ /\ next_token < MaxAccessKeys
       /\ KeysRequest("a@x.org", "free", 0)
    \/ /\ next_token < MaxAccessKeys
       /\ \E t \in {"free", "pro"}, d \in 0..MaxExpiresDays :
              create_api_key(AdminKey, t, d)
    \/ \E k \in KeyInputs : get_current_key(k)
    \/ Tick

SpecAccess == InitAuth /\ [][NextAccess]_vars

(***************************************************************************)
(* SpecRotation: the endpoints that issue keys to users, and key-login.    *)
(***************************************************************************)
NextRotation ==
    \/ \E e \in EmailInputs, t \in {"free", "basic", "gold"}, p \in {0, 2} :
           KeysRequest(e, t, p)
    \/ \E e \in EmailInputs, t \in {"free", "pro"}, p \in {1, 2} : Register(e, t, p)
    \/ \E e \in EmailInputs, p \in {2, 3} : login_legacy_auth(e, p)
    \/ \E k \in KeyInputs : login_with_api_key(k)

SpecRotation == InitAuth /\ [][NextRotation]_vars

(***************************************************************************)
(* SpecRate: sequential check_rate_limit calls for two keys that share one *)
(* limit, with the clock advancing between calls.                          *)
(***************************************************************************)
RateKeys == {sha256([prefix |-> "basic", token |-> 1]),
             sha256([prefix |-> "pro", token |-> 2])}

RateLimitInputs == (-1)..MaxLimit

\* Does a call for key_hash at time t fall in the window of its stored row?
InWindow(rows, key_hash, t) ==
    /\ key_hash \in DOMAIN rows
    /\ t < fromisoformat(rows[key_hash].reset_at)

InitRate ==
    /\ now = 0
    /\ rate_limits = EmptyTable
    /\ rl_limit \in RateLimitInputs
    /\ rl_out = NoRateOut
    /\ rl_calls = [h \in RateKeys |-> 0]
    /\ workers = EmptyTable
    /\ NonRateIdle

RateCall(h) ==
    LET r == check_rate_limit(rate_limits, h, rl_limit, now)
        n == IF InWindow(rate_limits, h, now) THEN rl_calls[h] + 1 ELSE 1
    IN  /\ n <= Max(rl_limit, 0) + ExtraCalls
        /\ rate_limits' = r.rows
        /\ rl_out' = [key |-> h, at |-> now, n |-> n, allowed |-> r.allowed,
                      limit |-> r.limit, remaining |-> r.remaining,
                      reset_at |-> r.reset_at, before |-> rate_limits]
        /\ rl_calls' = [rl_calls EXCEPT ![h] = n]
        /\ UNCHANGED <<now, rl_limit, workers>>
        /\ UNCHANGED nonRateVars

RateTick ==
    /\ now < MaxTime
    /\ now' = now + 1
    /\ UNCHANGED <<rate_limits, rl_limit, rl_out, rl_calls, workers>>
    /\ UNCHANGED nonRateVars

NextRate ==
    \/ \E h \in RateKeys : RateCall(h)
    \/ RateTick

SpecRate == InitRate /\ [][NextRate]_vars

(***************************************************************************)
(* The alert monitor (wssi-api/alerting/wssi_monitor.py).  Readings and    *)
(* thresholds are counted in halves: 2 is 1.0, 3 is 1.5, 4 is 2.0.         *)
(***************************************************************************)
DefaultCritical == 4
DefaultApproaching == 3
DefaultWatch == 2
DefaultAlertThreshold == 2
MaxReading == 5
MaxPolls == 2

\* dict.get(k, default)
get(d, k, default) == IF k \in DOMAIN d THEN d[k] ELSE default

abs_identity(x) == x

abs(x) == IF x < 0 THEN -x ELSE x

get_alert_severity(value, thresholds) ==
    IF value >= get(thresholds, "critical", DefaultCritical) THEN "critical"
    ELSE IF value >= get(thresholds, "approaching", DefaultApproaching) THEN "approaching"
    ELSE IF value >= get(thresholds, "watch", DefaultWatch) THEN "watch"
    ELSE "stable"

NoTheme == ""

\* f'wssi_{severity}' and f'theme_{severity}'
threshold_key(prefix, severity) ==
    CASE prefix = "wssi" /\ severity = "critical" -> "wssi_critical"
      [] prefix = "wssi" /\ severity = "approaching" -> "wssi_approaching"
      [] prefix = "wssi" /\ severity = "watch" -> "wssi_watch"
      [] prefix = "theme" /\ severity = "critical" -> "theme_critical"
      [] prefix = "theme" /\ severity = "approaching" -> "theme_approaching"
      [] OTHER -> "theme_watch"

\* The overall-WSSI part of check_thresholds.
wssi_alerts(data, thresholds) ==
    LET wssi_value == abs(data.wssi_value)
        wssi_severity == get_alert_severity(wssi_value,
            [critical |-> get(thresholds, "wssi_critical", DefaultCritical),
             approaching |-> get(thresholds, "wssi_approaching", DefaultApproaching),
             watch |-> get(thresholds, "wssi_watch", DefaultWatch)])
    IN IF wssi_severity # "stable"
       THEN << [type |-> "wssi_threshold", severity |-> wssi_severity,
                theme_id |-> NoTheme, value |-> wssi_value,
                threshold |-> get(thresholds, threshold_key("wssi", wssi_severity),
                                  DefaultAlertThreshold),
                message |-> <<"WSSI", data.wssi_value, wssi_severity>>] >>
       ELSE <<>>

\* The per-theme part of check_thresholds, in the order of theme_signals.
RECURSIVE theme_alerts(_, _)
theme_alerts(theme_signals, thresholds) ==
    IF theme_signals = <<>> THEN <<>>
    ELSE LET theme == Head(theme_signals)
             norm_value == abs(theme.normalized_value)
             theme_severity == get_alert_severity(norm_value,
                 [critical |-> get(thresholds, "theme_approaching", DefaultCritical),
                  approaching |-> get(thresholds, "theme_approaching", DefaultApproaching),
                  watch |-> get(thresholds, "theme_watch", DefaultWatch)])
             this == IF theme_severity # "stable"
                     THEN << [type |-> "theme_threshold", severity |-> theme_severity,
                              theme_id |-> theme.theme_name, value |-> norm_value,
                              threshold |-> get(thresholds,
                                                threshold_key("theme", theme_severity),
                                                DefaultAlertThreshold),
                              message |-> <<theme.theme_name, norm_value,
                                            theme_severity>>] >>
                     ELSE <<>>
         IN this \o theme_alerts(Tail(theme_signals), thresholds)

check_thresholds(data, config) ==
    wssi_alerts(data, config.thresholds)
        \o theme_alerts(data.theme_signals, config.thresholds)

\* send_alert: the channels that are enabled are tried, in this order.
Channels == <<"email", "webhook", "discord">>

send_alert(alert, config) ==
    [alert |-> alert,
     results |-> [i \in 1..Len(Channels) |->
                     <<Channels[i], Channels[i] \in config.channels>>]]

\* log_alert: one alert_history row and the upsert of the alert_state row.
log_alert(history, state, alert, wssi_value, t) ==
    LET key == IF alert.theme_id # NoTheme THEN alert.theme_id ELSE "wssi"
        row == IF key \in DOMAIN state
               THEN [state[key] EXCEPT !.last_status = alert.severity,
                                       !.last_value = wssi_value,
                                       !.alert_count = @ + 1,
                                       !.last_alert_at = sqlite_datetime_now(t)]
               ELSE [last_status |-> alert.severity, last_value |-> wssi_value,
                     alert_count |-> 1,
                     first_alert_at |-> sqlite_datetime_now(t),
                     last_alert_at |-> sqlite_datetime_now(t)]
    IN [history |-> Append(history,
                       [alert_type |-> alert.type, severity |-> alert.severity,
                        theme_id |-> alert.theme_id, message |-> alert.message,
                        wssi_value |-> wssi_value,
                        threshold_value |-> alert.threshold,
                        sent_at |-> sqlite_datetime_now(t), acknowledged |-> FALSE]),
        state |-> [k \in DOMAIN state \cup {key} |->
                      IF k = key THEN row ELSE state[k]]]

\* The loop of run_monitor over the triggered alerts.
RECURSIVE dispatch(_, _, _, _, _, _)
dispatch(alerts, history, state, data, config, t) ==
    IF alerts = <<>> THEN [history |-> history, state |-> state, sent |-> <<>>]
    ELSE LET results == send_alert(Head(alerts), config)
             logged == log_alert(history, state, Head(alerts), data.wssi_value, t)
             later == dispatch(Tail(alerts), logged.history, logged.state,
                               data, config, t)
         IN [later EXCEPT !.sent = <<results>> \o @]

\* One run_monitor call; in daemon mode the loop then sleeps for the interval.
run_monitor(test_mode) ==
    /\ mon.polls < MaxPolls
    /\ now' = now + 1
    /\ IF ~wssi_data.present
       THEN /\ mon' = [polls |-> mon.polls + 1, ran |-> FALSE, data |-> wssi_data,
                       alerts |-> <<>>, sent |-> <<>>]
            /\ UNCHANGED <<alert_history, alert_state>>
       ELSE LET alerts == check_thresholds(wssi_data, alert_config)
                out == dispatch(alerts, alert_history, alert_state, wssi_data,
                                alert_config, now)
            IN IF test_mode
               THEN /\ mon' = [polls |-> mon.polls + 1, ran |-> FALSE,
                               data |-> wssi_data, alerts |-> alerts, sent |-> <<>>]
                    /\ UNCHANGED <<alert_history, alert_state>>
               ELSE /\ mon' = [polls |-> mon.polls + 1, ran |-> TRUE,
                               data |-> wssi_data, alerts |-> alerts,
                               sent |-> out.sent]
                    /\ alert_history' = out.history
                    /\ alert_state' = out.state
    /\ UNCHANGED <<alert_config, wssi_data, rate_limits>>
    /\ UNCHANGED <<authVars, rateVars, archiveVars, variantVars, checkout_sessions,
                   historyVars>>

\* The pipeline rewrites data/wssi-latest.json between two polls.
WriteSnapshot(data) ==
    /\ mon.polls < MaxPolls
    /\ data # wssi_data
    /\ wssi_data' = data
    /\ UNCHANGED <<now, rate_limits, alert_config, alert_history, alert_state, mon>>
    /\ UNCHANGED <<authVars, rateVars, archiveVars, variantVars, checkout_sessions,
                   historyVars>>

Readings == (-MaxReading)..MaxReading

ThemeSignalInputs ==
    {<<>>,
     <<[theme_name |-> "t1", normalized_value |-> -3]>>,
     <<[theme_name |-> "t1", normalized_value |-> 2],
       [theme_name |-> "t2", normalized_value |-> 4]>>}

DataInputs ==
    {[present |-> TRUE, wssi_value |-> v, theme_signals |-> s] :
        v \in Readings, s \in ThemeSignalInputs}

\* A thresholds dict: each key is absent or holds one of its values.
Thresholds(choice) ==
    [k \in {k \in DOMAIN choice : choice[k] # 0} |-> choice[k]]

ThresholdInputs ==
    {Thresholds([wssi_critical |-> c, wssi_approaching |-> a, wssi_watch |-> w,
                 theme_critical |-> tc, theme_approaching |-> ta,
                 theme_watch |-> tw]) :
        c \in {0, 1, 4}, a \in {0, 2, MaxReading}, w \in {0, 1, 3},
        tc \in {0, MaxReading}, ta \in {0, 3}, tw \in {0, 1}}

\* The thresholds load_config writes when alerts.json does not exist.
default_config ==
    [wssi_critical |-> 4, wssi_watch |-> 2, theme_approaching |-> 4, theme_watch |-> 2]

ChannelInputs == {{}, {"webhook"}}

MonitorStart ==
    /\ now = 0
    /\ rate_limits = EmptyTable
    /\ alert_history = <<>>
    /\ alert_state = EmptyTable
    /\ mon = NoMon
    /\ AuthIdle
    /\ RateIdle
    /\ ArchiveIdle
    /\ VariantIdle
    /\ CheckoutIdle

\* Any thresholds and any snapshot; the classification is checked here.
InitThresholds ==
    /\ alert_config \in [thresholds : ThresholdInputs, channels : ChannelInputs]
    /\ wssi_data \in DataInputs \cup {NoData}
    /\ MonitorStart

NextThresholds == \E test_mode \in BOOLEAN : run_monitor(test_mode)

SpecThresholds == InitThresholds /\ [][NextThresholds]_vars

\* The daemon with the default thresholds, polling a snapshot that changes.
InitDaemon ==
    /\ alert_config \in [thresholds : {default_config}, channels : ChannelInputs]
    /\ wssi_data \in DataInputs \cup {NoData}
    /\ MonitorStart

NextDaemon ==
    \/ run_monitor(FALSE)
    \/ \E data \in DataInputs : WriteSnapshot(data)

SpecDaemon == InitDaemon /\ [][NextDaemon]_vars

(***************************************************************************)
(* Checkout sessions (POST /api/v1/billing/checkout-session).              *)
(***************************************************************************)
\* BillingCheckoutRequest.tier: pattern ^(basic|pro|enterprise)$
checkout_tier_pattern(tier) == tier \in {"basic", "pro", "enterprise"}

CheckoutTierInputs == {"basic", "pro", "enterprise", "free"}

\* `payload.api_key or x_api_key`
provided_key(body_key, x_api_key) == IF body_key # NoKey THEN body_key ELSE x_api_key

\* stripe.checkout.Session.create returns a session, which carries the metadata.
create_checkout_session(tier_in, body_key, x_api_key) ==
    LET tier == normalize_tier(tier_in, "free")
        provided == provided_key(body_key, x_api_key)
        key_record == verify_api_key(api_keys, provided, now)
        price_id == IF tier = "basic" THEN stripe_env.price_basic
                    ELSE stripe_env.price_pro
        answer(status, code) ==
            [Response("checkout", status, code, provided) EXCEPT
                !.api_key = body_key, !.req_tier = tier_in, !.tier = tier]
        refuse(status, code) ==
            /\ resp' = answer(status, code)
            /\ UNCHANGED checkout_sessions
    IN
    /\ IF ~checkout_tier_pattern(tier_in)
       THEN refuse(422, "VALIDATION_ERROR")
       ELSE IF tier = "enterprise"
       THEN refuse(400, "CONTACT_SALES_REQUIRED")
       ELSE IF ~key_record.found
       THEN refuse(401, "AUTH_MISSING")
       ELSE IF ~import_stripe(stripe_env)
       THEN refuse(503, "BILLING_NOT_CONFIGURED")
       ELSE IF ~(stripe_env.secret_key /\ stripe_env.publishable_key /\ price_id)
       THEN refuse(503, "BILLING_NOT_CONFIGURED")
       ELSE /\ resp' = answer(200, "")
            /\ checkout_sessions' = checkout_sessions \cup
                   {[target_tier |-> tier, key_hash |-> key_record.key_hash]}
    /\ UNCHANGED <<now, api_keys, users, rate_limits, billing_events, next_token,
                   issued, stripe_env>>
    /\ UNCHANGED <<rateVars, archiveVars, variantVars, monitorVars, historyVars>>

\* init_db() in a deployment with any Stripe settings and price ids.
InitCheckout ==
    /\ now = 0
    /\ api_keys = (sha256(AdminKey) :>
                      [tier |-> "enterprise", rate_limit |-> EnterpriseLimit,
                       is_active |-> TRUE, is_admin |-> TRUE, expires_at |-> NoExpiry])
    /\ users = EmptyTable
    /\ rate_limits = EmptyTable
    /\ billing_events = <<>>
    /\ next_token = 0
    /\ resp = NoResp
    /\ issued = EmptyTable
    /\ stripe_env \in {env \in StripeEnvs : env.webhook_secret}
    /\ NonAuthIdle

(***************************************************************************)
(* SpecCheckout: the admin creates one key, with or without an expiry,     *)
(* clients ask for checkout sessions, and the clock advances.              *)
(***************************************************************************)
MaxCheckoutKeys == 1

NextCheckout ==
    \/ /\ next_token < MaxCheckoutKeys
       /\ \E d \in 0..MaxExpiresDays : create_api_key(AdminKey, "free", d)
    \/ \E t \in CheckoutTierInputs, body_key \in KeyInputs \ {InvalidKey, AdminKey},
          x_api_key \in KeyInputs \ {AdminKey} :
              create_checkout_session(t, body_key, x_api_key)
    \/ Tick

SpecCheckout == InitCheckout /\ [][NextCheckout]_vars

(***************************************************************************)
(* SpecUpgrade: one user registers, rotates the key (keys/request, login), *)
(* opens checkout sessions, and Stripe delivers the webhook of a session.  *)
(***************************************************************************)
InitUpgrade ==
    /\ now = 0
    /\ api_keys = (sha256(AdminKey) :>
                      [tier |-> "enterprise", rate_limit |-> EnterpriseLimit,
                       is_active |-> TRUE, is_admin |-> TRUE, expires_at |-> NoExpiry])
    /\ users = EmptyTable
    /\ rate_limits = EmptyTable
    /\ billing_events = <<>>
    /\ next_token = 0
    /\ resp = NoResp
    /\ issued = EmptyTable
    /\ stripe_env = FullStripe
    /\ NonAuthIdle

\* The checkout.session.completed event of a session carries its metadata.
deliver_webhook(signed, session) ==
    billing_webhook(signed, CheckoutCompleted, session.key_hash, session.target_tier)

NextUpgrade ==
    \/ /\ next_token < MaxBillingKeys
       /\ Register("a@x.org", "free", 2)
    \/ /\ next_token < MaxBillingKeys
       /\ KeysRequest("a@x.org", "free", 0)
    \/ /\ next_token < MaxBillingKeys
       /\ login_legacy_auth("a@x.org", 2)
    \/ \E t \in {"basic", "pro"}, body_key \in KeyInputs \ {InvalidKey, AdminKey} :
           create_checkout_session(t, body_key, NoKey)
    \/ \E signed \in BOOLEAN, session \in checkout_sessions :
           deliver_webhook(signed, session)

SpecUpgrade == InitUpgrade /\ [][NextUpgrade]_vars

(***************************************************************************)
(* SpecPublish: the first publish requests of a deployment, over every     *)
(* token, release date and set of artifacts on disk.                       *)
(***************************************************************************)
MaxCheckedPublishes == 3

NextPublish ==
    /\ next_release < MaxCheckedPublishes
    /\ \E token \in PublishTokenInputs, d \in ReleaseDateInputs,
          a \in ArtifactInputs, f \in FailureInputs :
           publish_brief_release(token, d, a, f)

SpecPublish == InitArchive /\ [][NextPublish]_vars

(***************************************************************************)
(* SpecList: releases are published one after another and the release     *)
(* list is read in between.                                                *)
(***************************************************************************)
MaxListedReleases == 3

NextList ==
    \/ /\ next_release < MaxListedReleases
       /\ publish_brief_release("right", "", AllArtifacts, "none")
    \/ \E k \in KeyInputs, limit \in LimitInputs : list_brief_releases(k, limit)

SpecList == InitArchive /\ [][NextList]_vars

(***************************************************************************)
(* GET /wssi/history.  WSSI values of the history are counted in           *)
(* hundredths; the snapshot's wssi_value is counted in halves.             *)
(***************************************************************************)
MaxHistoryRows == 3

NoValue == -100000

\* The rows a wssi-history.json can hold: a row with a date, a row without
\* one, and an entry that is not an object.
HistoryRow(shape, i) ==
    CASE shape = "dated" -> [is_dict |-> TRUE, date |-> i, wssi_value |-> 100 + i]
      [] shape = "undated" -> [is_dict |-> TRUE, date |-> 0, wssi_value |-> 100 + i]
      [] OTHER -> [is_dict |-> FALSE, date |-> 0, wssi_value |-> NoValue]

HistoryRowInputs ==
    UNION {{[i \in 1..n |-> HistoryRow(shapes[i], i)] :
               shapes \in [1..n -> {"dated", "undated", "scalar"}]} :
           n \in 0..MaxHistoryRows}

HistoryArtifactInputs ==
    {NoArtifact, [NoArtifact EXCEPT !.kind = "list"]}
        \cup {[NoArtifact EXCEPT !.kind = "dict", !.has_history = TRUE, !.history = rows] :
                 rows \in HistoryRowInputs}
        \cup {[NoArtifact EXCEPT !.kind = "dict", !.has_data = TRUE, !.data = rows] :
                 rows \in {<<>>, <<HistoryRow("dated", 1), HistoryRow("dated", 2)>>}}

\* payload.get("history"), else payload.get("data"), else []
history_rows(payload) ==
    IF payload.kind # "dict" THEN <<>>
    ELSE IF payload.has_history THEN payload.history
    ELSE IF payload.has_data THEN payload.data
    ELSE <<>>

whole_list(rows, days) == rows

\* rows[-days:]
last_rows(rows, days) == SubSeq(rows, Max(1, Len(rows) - days + 1), Len(rows))

\* The loop over rows: entries for the objects that have a date.
RECURSIVE history_entries(_)
history_entries(rows) ==
    IF rows = <<>> THEN <<>>
    ELSE LET row == Head(rows) IN
         IF ~row.is_dict \/ row.date = 0
         THEN history_entries(Tail(rows))
         ELSE <<[date |-> row.date, wssi_value |-> row.wssi_value,
                 wssi_score |-> NoValue]>> \o history_entries(Tail(rows))

\* The synthetic entry of i days ago; today is the day of t.
synthetic_entry(current, i, t) ==
    LET variation == ((i % 7) - 3) * 10 + (i % 3) * 5
        value == current * 50 + variation
    IN [date |-> (t \div TicksPerDay) - i, wssi_value |-> value,
        wssi_score |-> Max(0, Min(10000, 5000 + value * 20))]

\* The body of get_wssi_history.
wssi_history(days_in, payload, snapshot, t) ==
    LET days == Max(1, days_in)
        history == IF payload.kind = "missing" THEN <<>>
                   ELSE history_entries(last_rows(history_rows(payload), days))
    IN IF history # <<>>
       THEN [days |-> days_in, status |-> 200, code |-> "", history |-> history,
             count |-> Len(history), current |-> history[Len(history)].wssi_value,
             source |-> "artifact"]
       ELSE IF ~snapshot.present
       THEN [NoHistoryOut EXCEPT !.days = days_in, !.status = 503,
                                 !.code = "DATA_UNAVAILABLE"]
       ELSE [days |-> days_in, status |-> 200, code |-> "",
             history |-> [n \in 1..days |->
                             synthetic_entry(snapshot.wssi_value, days - n, t)],
             count |-> days, current |-> snapshot.wssi_value * 50,
             source |-> "synthetic-fallback"]

\* GET /wssi/history?days=N: the dependency get_current_key, then the body.
get_wssi_history(x_api_key, days) ==
    /\ require_current_key(x_api_key)
    /\ history_out' = IF resp'.status = 200
                      THEN wssi_history(days, history_artifact, wssi_data, now)
                      ELSE [NoHistoryOut EXCEPT !.days = days, !.status = resp'.status,
                                                !.code = resp'.code]
    /\ UNCHANGED <<rateVars, archiveVars, variantVars, checkout_sessions,
                   history_artifact>>
    /\ UNCHANGED <<alert_config, wssi_data, alert_history, alert_state, mon>>

DaysInputs == (-1)..(MaxHistoryRows + 1)

\* init_db() in a deployment with any history artifact, with or without a
\* snapshot.
InitHistory ==
    /\ now = 0
    /\ api_keys = (sha256(AdminKey) :>
                      [tier |-> "enterprise", rate_limit |-> EnterpriseLimit,
                       is_active |-> TRUE, is_admin |-> TRUE, expires_at |-> NoExpiry])
    /\ users = EmptyTable
    /\ rate_limits = EmptyTable
    /\ billing_events = <<>>
    /\ next_token = 0
    /\ resp = NoResp
    /\ issued = EmptyTable
    /\ stripe_env = NoStripe
    /\ RateIdle
    /\ ArchiveIdle
    /\ VariantIdle
    /\ alert_config = [thresholds |-> EmptyTable, channels |-> {}]
    /\ wssi_data \in {NoData, [present |-> TRUE, wssi_value |-> 3, theme_signals |-> <<>>]}
    /\ alert_history = <<>>
    /\ alert_state = EmptyTable
    /\ mon = NoMon
    /\ checkout_sessions = {}
    /\ history_artifact \in HistoryArtifactInputs
    /\ history_out = NoHistoryOut

NextHistory ==
    \/ \E k \in {NoKey, AdminKey}, days \in DaysInputs : get_wssi_history(k, days)
    \/ Tick

SpecHistory == InitHistory /\ [][NextHistory]_vars

(***************************************************************************)
(* GET /admin/stats.                                                       *)
(***************************************************************************)
\* SELECT tier, COUNT(*) FROM api_keys WHERE is_active = 1 AND is_admin = 0
\* GROUP BY tier
keys_by_tier(keys) ==
    LET counted == {h \in DOMAIN keys : keys[h].is_active /\ ~keys[h].is_admin}
    IN [tier \in {keys[h].tier : h \in counted} |->
           Cardinality({h \in counted : keys[h].tier = tier})]

\* Nothing writes usage_logs, so requests_today is 0.
get_admin_stats(admin_key) ==
    /\ IF admin_key = NoKey
       THEN Reject("admin_stats", 401, "ADMIN_KEY_REQUIRED", admin_key)
       ELSE /\ resp' = [Response("admin_stats", 200, "", admin_key) EXCEPT
                           !.stats = [keys_by_tier |-> keys_by_tier(api_keys),
                                      requests_today |-> 0]]
            /\ UNCHANGED <<now, api_keys, users, rate_limits, billing_events,
                           next_token, issued, stripe_env>>
    /\ UNCHANGED nonAuthVars

(***************************************************************************)
(* SpecAdmin: the admin endpoints, called with every kind of header.       *)
(***************************************************************************)
NextAdmin ==
    \/ /\ next_token < MaxAccessKeys
       /\ \E k \in KeyInputs, t \in {"free", "pro", "gold"}, d \in 0..MaxExpiresDays :
              create_api_key(k, t, d)
    \/ /\ next_token >= MaxAccessKeys
       /\ \E k \in KeyInputs \ {AdminKey}, t \in {"free", "gold"} : create_api_key(k, t, 0)
    \/ \E k \in KeyInputs : get_admin_stats(k)

SpecAdmin == InitAuth /\ [][NextAdmin]_vars

(***************************************************************************)
(* SpecQuota: archive reads next to the metered data routes.  The          *)
(* deployment has the bootstrap admin key and two keys as POST             *)
(* /admin/create-key leaves them: a basic one, whose rate_limits row is    *)
(* either absent or already at the tier's daily limit, and a free one,     *)
(* whose limit is 0.                                                       *)
(***************************************************************************)
BasicQuotaKey == generate_api_key("basic", 1)

FreeQuotaKey == generate_api_key("free", 2)

\* The rate_limits row of a key that has used its whole quota at time t
exhausted_row(limit, t) ==
    [requests_count |-> limit, reset_at |-> isoformat(next_reset_at(t))]

InitQuota ==
    /\ now = 0
    /\ api_keys =
           (sha256(AdminKey) :>
               [tier |-> "enterprise", rate_limit |-> EnterpriseLimit,
                is_active |-> TRUE, is_admin |-> TRUE, expires_at |-> NoExpiry])
           @@ (BasicQuotaKey.key_hash :>
               [tier |-> "basic", rate_limit |-> rate_limit_for_tier("basic"),
                is_active |-> TRUE, is_admin |-> FALSE, expires_at |-> NoExpiry])
           @@ (FreeQuotaKey.key_hash :>
               [tier |-> "free", rate_limit |-> rate_limit_for_tier("free"),
                is_active |-> TRUE, is_admin |-> FALSE, expires_at |-> NoExpiry])
    /\ users = EmptyTable
    /\ rate_limits \in
           {EmptyTable,
            BasicQuotaKey.key_hash :>
                exhausted_row(rate_limit_for_tier("basic"), 0)}
    /\ billing_events = <<>>
    /\ next_token = 2
    /\ resp = NoResp
    /\ issued = EmptyTable
    /\ stripe_env = FullStripe
    /\ brief_releases = EmptyTable
    /\ disk = {}
    /\ archive_env = [max_releases |-> Unset, publish_token |-> TRUE]
    /\ next_release = 0
    /\ pub = NoPub
    /\ view = NoView
    /\ RateIdle
    /\ VariantIdle
    /\ MonitorIdle
    /\ CheckoutIdle

\* The requests of SpecQuota: every kind of key but the admin's, the two
\* variants, and one day's rollover.
QuotaKeyInputs == KeyInputs \ {AdminKey}

QuotaVariantInputs == {"free", "paid"}

NextQuota ==
    \/ \E k \in QuotaKeyInputs : get_current_key(k)
    \/ /\ now < TicksPerDay
       /\ Tick
    \/ /\ next_release < MaxReadReleases
       /\ publish_brief_release("right", "", AllArtifacts, "none")
    \/ \E k \in QuotaKeyInputs : list_brief_releases(k, ListLimitMax)
    \/ \E k \in QuotaKeyInputs, r \in ReleaseIdInputs : get_brief_release_detail(k, r)
    \/ \E k \in QuotaKeyInputs, r \in ReleaseIdInputs, v \in QuotaVariantInputs :
           view_brief_release_html(k, r, v)
    \/ \E k \in QuotaKeyInputs, r \in ReleaseIdInputs, v \in QuotaVariantInputs :
           get_brief_release_model(k, r, v)

SpecQuota == InitQuota /\ [][NextQuota]_vars

(***************************************************************************)
(* SpecUserQuota: one user on the basic tier spends the daily quota and    *)
(* rotates the key, all within one reset window.  The user is as           *)
(* POST /api/v1/auth/register leaves it; the rate_limits row of the key is *)
(* either absent or already at the tier's daily limit, and rl_calls counts *)
(* the requests each key has been allowed.                                 *)
(***************************************************************************)
QuotaUser == "a@x.org"

QuotaPassword == 2

FirstUserKey == generate_api_key("basic", 1)

InitUserQuota ==
    /\ now = 0
    /\ api_keys =
           (sha256(AdminKey) :>
               [tier |-> "enterprise", rate_limit |-> EnterpriseLimit,
                is_active |-> TRUE, is_admin |-> TRUE, expires_at |-> NoExpiry])
           @@ (FirstUserKey.key_hash :>
               [tier |-> "basic", rate_limit |-> rate_limit_for_tier("basic"),
                is_active |-> TRUE, is_admin |-> FALSE, expires_at |-> NoExpiry])
    /\ users = (QuotaUser :> [password_hash |-> hash_password(QuotaPassword),
                              key_hash |-> FirstUserKey.key_hash, tier |-> "basic"])
    /\ \E spent \in {0, rate_limit_for_tier("basic")} :
           /\ rate_limits = IF spent = 0 THEN EmptyTable
                            ELSE FirstUserKey.key_hash :> exhausted_row(spent, 0)
           /\ rl_calls = (FirstUserKey.key_hash :> spent)
    /\ billing_events = <<>>
    /\ next_token = 1
    /\ resp = NoResp
    /\ issued = (QuotaUser :> <<FirstUserKey.key>>)
    /\ stripe_env = NoStripe
    /\ rl_limit = 0
    /\ rl_out = NoRateOut
    /\ workers = EmptyTable
    /\ ArchiveIdle
    /\ VariantIdle
    /\ MonitorIdle
    /\ CheckoutIdle

\* A request to a protected data route, counted when it is served.
counted_request(x_api_key) ==
    LET h == sha256(x_api_key) IN
    /\ require_current_key(x_api_key)
    /\ rl_calls' = IF resp'.status # 200 THEN rl_calls
                   ELSE IF h \in DOMAIN rl_calls
                   THEN [rl_calls EXCEPT ![h] = @ + 1]
                   ELSE rl_calls @@ (h :> 1)
    /\ UNCHANGED <<rl_limit, rl_out, workers, archiveVars, variantVars, monitorVars,
                   checkout_sessions, historyVars>>

NextUserQuota ==
    \/ \E k \in KeyInputs \ {AdminKey} : counted_request(k)
    \/ KeysRequest(QuotaUser, "basic", 0)
    \/ login_legacy_auth(QuotaUser, QuotaPassword)
    \/ \E k \in KeyInputs \ {AdminKey} : login_with_api_key(k)
    \/ /\ now + 1 < TicksPerDay
       /\ Tick

SpecUserQuota == InitUserQuota /\ [][NextUserQuota]_vars

(***************************************************************************)
(* SpecRace: check_rate_limit run by several worker processes, each on its *)
(* own connection of get_db().  The SELECT is one step; the UPDATE or      *)
(* INSERT with its commit is another, and other workers' steps can come    *)
(* between the two.  rl_calls counts the calls allowed in the window.      *)
(***************************************************************************)
MaxWorkers == 2

Workers == 1..MaxWorkers

IdleWorker == [pc |-> "idle", key |-> NoHash, at |-> 0, found |-> FALSE,
               current_count |-> 0, current_reset |-> 0, last |-> "none"]

\* A row left by a window that ended at or before time t.
expired_row(t) == [requests_count |-> 1, reset_at |-> isoformat(t)]

InitRace ==
    /\ now = 0
    /\ rate_limits \in {EmptyTable}
           \cup {h :> expired_row(0) : h \in RateKeys}
    /\ rl_limit \in 0..MaxLimit
    /\ rl_out = NoRateOut
    /\ rl_calls = [h \in RateKeys |-> 0]
    /\ workers = [w \in Workers |-> IdleWorker]
    /\ NonRateIdle

\* check_rate_limit up to and including the SELECT, in worker w.
rate_select(w, key_hash) ==
    /\ workers[w].pc = "idle"
    /\ IF HardLimited(rl_limit)
       THEN workers' = [workers EXCEPT ![w] =
                           [IdleWorker EXCEPT !.key = key_hash, !.at = now,
                                              !.last = "denied"]]
       ELSE IF key_hash \in DOMAIN rate_limits
       THEN workers' = [workers EXCEPT ![w] =
                [pc |-> "selected", key |-> key_hash, at |-> now, found |-> TRUE,
                 current_count |-> rate_limits[key_hash].requests_count,
                 current_reset |-> fromisoformat(rate_limits[key_hash].reset_at),
                 last |-> "none"]]
       ELSE workers' = [workers EXCEPT ![w] =
                [IdleWorker EXCEPT !.pc = "selected", !.key = key_hash,
                                   !.at = now]]
    /\ UNCHANGED <<now, rate_limits, rl_limit, rl_out, rl_calls>>
    /\ UNCHANGED nonRateVars

\* The rest of the call in worker w: the branch is chosen from the row the
\* SELECT returned, the statement runs on the table as it is now.
rate_write(w) ==
    LET me == workers[w]
        h == me.key
        reset_at == next_reset_at(me.at)
        done(outcome) == [workers EXCEPT ![w] = [me EXCEPT !.pc = "idle",
                                                           !.last = outcome]]
        allowed == [rl_calls EXCEPT ![h] = @ + 1]
    IN  /\ me.pc = "selected"
        /\ IF me.found
           THEN IF WindowExpired(me.at, me.current_reset)
                THEN \* UPDATE rate_limits SET requests_count = 1, reset_at = ?
                     /\ rate_limits' = [rate_limits EXCEPT ![h] =
                            [requests_count |-> 1, reset_at |-> isoformat(reset_at)]]
                     /\ rl_calls' = allowed
                     /\ workers' = done("allowed")
                ELSE IF RateLimited(me.current_count, rl_limit)
                THEN /\ workers' = done("denied")
                     /\ UNCHANGED <<rate_limits, rl_calls>>
                ELSE \* UPDATE rate_limits SET requests_count = requests_count + 1
                     /\ rate_limits' = [rate_limits EXCEPT ![h].requests_count = @ + 1]
                     /\ rl_calls' = allowed
                     /\ workers' = done("allowed")
           ELSE IF h \in DOMAIN rate_limits
                THEN \* INSERT of a second row for the PRIMARY KEY key_hash
                     /\ workers' = done("IntegrityError")
                     /\ UNCHANGED <<rate_limits, rl_calls>>
                ELSE /\ rate_limits' = rate_limits @@
                            (h :> [requests_count |-> 1,
                                   reset_at |-> isoformat(reset_at)])
                     /\ rl_calls' = allowed
                     /\ workers' = done("allowed")
        /\ UNCHANGED <<now, rl_limit, rl_out>>
        /\ UNCHANGED nonRateVars

NextRace ==
    \/ \E w \in Workers, h \in RateKeys : rate_select(w, h)
    \/ \E w \in Workers : rate_write(w)

SpecRace == InitRace /\ [][NextRace]_vars

(***************************************************************************)
(* SpecAppendix: apply_brief_variant on the models that                    *)
(* build_brief_archive_model builds from the theme rows of a snapshot.     *)
(***************************************************************************)
\* collect_theme_rows: one row per theme signal, each with the signal's
\* indicator_details (details entries for every theme).
collect_theme_rows(themes, details) ==
    [i \in 1..themes |-> [theme_id |-> i, z_score |-> themes - i,
                          indicator_details |-> Items(details)]]

\* build_brief_archive_model from what its loaders and extractors returned
build_brief_archive_model(theme_rows, alert_rows, strong_pairs, network_highlights, pattern_rows) ==
    [top_themes |-> theme_rows,
     alerts |-> [counts |-> Len(alert_rows), latest_rows |-> alert_rows],
     correlations |-> strong_pairs,
     network |-> network_highlights,
     patterns |-> pattern_rows,
     indicator_appendix |->
         [i \in 1..Len(theme_rows) |->
             [theme_id |-> theme_rows[i].theme_id,
              z_score |-> theme_rows[i].z_score,
              indicator_details |-> theme_rows[i].indicator_details]],
     rest |-> Len(theme_rows)]

BuiltModelInputs ==
    {build_brief_archive_model(collect_theme_rows(t, d), Items(a), Items(c),
                               [nodes |-> Items(n), edges |-> Items(n)], Items(c)) :
        t \in 0..(FreeTopThemes + ExtraItems), d \in Lengths(FreeIndicatorDetails),
        a \in Lengths(FreeAlertRows), c \in Lengths(FreeCorrelations),
        n \in Lengths(FreeNetworkNodes)}

InitAppendix ==
    /\ now = 0
    /\ rate_limits = EmptyTable
    /\ base_model \in BuiltModelInputs
    /\ variant_out = NoVariantOut
    /\ AuthIdle
    /\ RateIdle
    /\ ArchiveIdle
    /\ MonitorIdle
    /\ CheckoutIdle

NextAppendix == \E variant \in {"free", "paid"} : ApplyVariant(variant)

SpecAppendix == InitAppendix /\ [][NextAppendix]_vars

(***************************************************************************)
(* C1: within one window (calls made before the stored reset_at) of a key  *)
(* with limit L > 0, exactly the first L calls are allowed; a later call   *)
(* is denied with remaining 0 and the stored reset time, leaves the table  *)
(* as it was, and no stored requests_count exceeds L.                      *)
(***************************************************************************)
RateWindowExact ==
    /\ rl_limit > 0 =>
          \A h \in DOMAIN rate_limits : rate_limits[h].requests_count <= rl_limit
    /\ (rl_out.key # -1 /\ rl_out.limit > 0) =>
          /\ rl_out.allowed <=> (rl_out.n <= rl_out.limit)
          /\ ~rl_out.allowed =>
                /\ rl_out.key \in DOMAIN rl_out.before
                /\ rl_out.remaining = 0
                /\ rl_out.reset_at = fromisoformat(rl_out.before[rl_out.key].reset_at)
                /\ rate_limits = rl_out.before

\* The call after the L-th of a window has been made and denied.
RateWindowExactWitness ==
    /\ rl_out.key # -1
    /\ rl_out.limit > 1
    /\ rl_out.n = rl_out.limit + 1
    /\ ~rl_out.allowed

\* The first midnight strictly after instant t.
FirstMidnightAfter(t) ==
    CHOOSE m \in 0..(t + TicksPerDay) :
        /\ m % TicksPerDay = 0
        /\ m > t
        /\ \A k \in 0..(t + TicksPerDay) : (k % TicksPerDay = 0 /\ k > t) => m <= k

\* The last call found a stored row whose reset_at had been reached.
RolledOver ==
    /\ rl_out.key # -1
    /\ rl_out.limit > 0
    /\ rl_out.key \in DOMAIN rl_out.before
    /\ rl_out.at >= fromisoformat(rl_out.before[rl_out.key].reset_at)

(***************************************************************************)
(* C2: a call at now >= the stored reset_at, for a key with limit L > 0,   *)
(* is allowed whatever the stored count, leaves requests_count = 1 and     *)
(* reset_at = the first midnight strictly after now.                       *)
(***************************************************************************)
RolloverResets ==
    RolledOver =>
        /\ rl_out.allowed
        /\ rate_limits[rl_out.key].requests_count = 1
        /\ fromisoformat(rate_limits[rl_out.key].reset_at) = FirstMidnightAfter(rl_out.at)

\* A rollover of a row whose count had reached the limit.
RolloverResetsWitness ==
    /\ RolledOver
    /\ rl_out.before[rl_out.key].requests_count = rl_out.limit
    /\ rl_out.allowed

(***************************************************************************)
(* Claims about protected data routes, under SpecAccess.                   *)
(***************************************************************************)
\* Whether the presented key verified when the last request arrived
\* (verify_api_key on the row as it was then).
VerifiedOnArrival ==
    /\ resp.key_known
    /\ verify_api_key(sha256(resp.header) :> resp.key_row, resp.header, resp.at).found

\* C3: a key whose rate_limit is <= 0 is never served by a protected route,
\* whatever the time: a request with it that verifies is answered
\* 429 RATE_LIMIT_EXCEEDED, the request leaves rate_limits as it was, and
\* no rate_limits row exists for such a key.
FreeKeyHardLimited ==
    /\ \A h \in DOMAIN api_keys :
           api_keys[h].rate_limit <= 0 => h \notin DOMAIN rate_limits
    /\ (resp.op = "data" /\ resp.key_known /\ resp.key_row.rate_limit <= 0) =>
           /\ resp.status # 200
           /\ ~resp.rl_changed
           /\ VerifiedOnArrival =>
                  resp.status = 429 /\ resp.code = "RATE_LIMIT_EXCEEDED"

\* A free key is denied with 429 on a later day than the one it was
\* created on, after an earlier day's request.
FreeKeyHardLimitedWitness ==
    /\ resp.op = "data"
    /\ resp.status = 429
    /\ resp.key_row.rate_limit <= 0
    /\ resp.key_row.tier = "free"
    /\ resp.at >= TicksPerDay
    /\ sha256(resp.header) \notin DOMAIN rate_limits

\* The instant the key of the last request expires is still in the future
\* when the request arrives.
NotExpiredOnArrival ==
    \/ resp.key_row.expires_at = NoExpiry
    \/ resp.at < fromisoformat(resp.key_row.expires_at)

\* C4: a protected data route is served only for a key that hashes to an
\* active, unexpired api_keys row; a missing header is answered
\* 401 AUTH_MISSING, any other key that is unknown, inactive or expired
\* 401 AUTH_INVALID, and neither touches rate_limits.
ServedOnlyForLiveKey ==
    resp.op = "data" =>
        /\ resp.status = 200 =>
               resp.key_known /\ resp.key_row.is_active /\ NotExpiredOnArrival
        /\ resp.header = NoKey =>
               resp.status = 401 /\ resp.code = "AUTH_MISSING" /\ ~resp.rl_changed
        /\ (/\ resp.header # NoKey
            /\ ~(resp.key_known /\ resp.key_row.is_active /\ NotExpiredOnArrival)) =>
               resp.status = 401 /\ resp.code = "AUTH_INVALID" /\ ~resp.rl_changed

(***************************************************************************)
(* Claims about key rotation, under SpecRotation.                          *)
(***************************************************************************)
\* The keys returned so far for email e, in the order they were returned.
ReturnedKeys(e) == issued[e]

\* C5: for every email, the key returned by the most recent keys/request,
\* register or successful login call verifies, it differs from every key
\* returned earlier, every earlier key is rejected, and at most one of the
\* keys returned for the email is active.
KeyRotation ==
    \A e \in DOMAIN issued :
        LET keys == ReturnedKeys(e)
            latest == keys[Len(keys)]
        IN  /\ verify_api_key(api_keys, latest, now).found
            /\ \A i \in 1..(Len(keys) - 1) :
                   /\ keys[i] # latest
                   /\ ~verify_api_key(api_keys, keys[i], now).found
            /\ Cardinality({i \in 1..Len(keys) :
                               api_keys[sha256(keys[i])].is_active}) <= 1

\* One email has been through three issuing calls, the last a login, and a
\* key-login with the first key it was given has just been rejected.
KeyRotationWitness ==
    \E e \in DOMAIN issued :
        /\ Len(issued[e]) >= 3
        /\ users[e].password_hash # NoPasswordHash
        /\ resp.op = "key_login"
        /\ resp.status = 401
        /\ resp.header = issued[e][1]

(***************************************************************************)
(* Claims about tiers and limits, under SpecBilling.                       *)
(***************************************************************************)
\* The daily limit the claim states for each tier.
ClaimedLimit(tier) ==
    CASE tier = "free" -> 0
      [] tier = "basic" -> 1000
      [] tier = "pro" -> 1000
      [] tier = "enterprise" -> 999999999
      [] OTHER -> -1

\* C6: every api_keys row has one of the four tiers and that tier's limit
\* (free 0, basic 1000, pro 1000, enterprise 999999999); a key just issued
\* by keys/request or register has the requested tier, in the response and
\* in its row, and its key string starts with "wssi-<tier>-".
TierAndLimit ==
    /\ \A h \in DOMAIN api_keys :
           /\ api_keys[h].tier \in {"free", "basic", "pro", "enterprise"}
           /\ api_keys[h].rate_limit = ClaimedLimit(api_keys[h].tier)
    /\ (resp.op \in {"keys_request", "register"} /\ resp.status = 200) =>
           /\ resp.tier = resp.req_tier
           /\ resp.rate_limit = ClaimedLimit(resp.req_tier)
           /\ resp.api_key.prefix = resp.req_tier
           /\ api_keys[sha256(resp.api_key)].tier = resp.req_tier

\* A verified checkout.session.completed webhook has just moved a key that
\* was issued on the free tier to pro.
TierAndLimitWitness ==
    /\ resp.op = "webhook"
    /\ resp.status = 200
    /\ resp.req_tier = " PRO "
    /\ \E h \in DOMAIN api_keys :
           /\ api_keys[h].tier = "pro"
           /\ ~api_keys[h].is_admin
           /\ \E k \in [prefix : {"free"}, token : 1..next_token] : sha256(k) = h

(***************************************************************************)
(* Claims about archive reads, under SpecArchiveRead.                      *)
(***************************************************************************)
\* The viewer of the last archive request presented an active key of a
\* paid tier.
PaidViewer ==
    /\ view.key_known
    /\ view.key_row.is_active
    /\ view.key_row.tier \in {"basic", "pro", "enterprise"}

\* The viewer presented an active key of the free tier.
FreeViewer ==
    /\ view.key_known
    /\ view.key_row.is_active
    /\ view.key_row.tier = "free"

\* The response carries paid links or paid content.
PaidMaterial ==
    \/ \E i \in 1..Len(view.releases) :
           view.releases[i].links.paid # NoLinks \/ ~view.releases[i].locked_paid
    \/ view.content.variant = "paid"

\* C7: a viewer without a key, with an unknown or deactivated key, or with
\* a free key gets links.paid = null and locked_paid = true in listings
\* and details, and UPGRADE_REQUIRED for every view/model request with
\* variant=paid, 403 with an active free key and 402 otherwise, whether or
\* not the release exists; paid links and paid content go only to a viewer
\* with an active basic/pro/enterprise key.
PaidArchiveGated ==
    /\ (view.op \in {"list", "detail"} /\ ~PaidViewer) =>
           \A i \in 1..Len(view.releases) :
               /\ view.releases[i].links.paid = NoLinks
               /\ view.releases[i].locked_paid
    /\ (view.op \in {"view", "model"} /\ view.variant = "paid" /\ ~PaidViewer) =>
           /\ view.code = "UPGRADE_REQUIRED"
           /\ view.status = IF FreeViewer THEN 403 ELSE 402
    /\ PaidMaterial => PaidViewer

\* An active free key has just been refused the paid model of a release
\* that does not exist, with 403.
PaidArchiveGatedWitness ==
    /\ view.op = "model"
    /\ view.variant = "paid"
    /\ FreeViewer
    /\ ~view.released
    /\ view.status = 403
    /\ view.code = "UPGRADE_REQUIRED"
    /\ brief_releases # EmptyTable

(***************************************************************************)
(* Claims about the brief archive, under SpecArchive.                      *)
(***************************************************************************)
\* clamp(WSSI_BRIEF_ARCHIVE_MAX_RELEASES, 10, 2000), 200 when the setting
\* is absent or not an integer.
ClaimedCap(raw) ==
    IF raw.kind # "int" THEN 200
    ELSE IF raw.value < 10 THEN 10
    ELSE IF raw.value > 2000 THEN 2000
    ELSE raw.value

\* The releases of rows that have at least cap releases with a later
\* published_at, in the order of the published_at column.
BeyondCap(rows, cap) ==
    {r \in DOMAIN rows :
        Cardinality({q \in DOMAIN rows :
            published_gt(rows[q].published_at, rows[r].published_at)}) >= cap}

ArchiveInStep ==
    /\ \A r \in DOMAIN brief_releases :
           \A n \in ArtifactNames : release_path(r, n) \in disk
    /\ \A f \in disk : f.dir \in DOMAIN brief_releases

(***************************************************************************)
(* Claims about apply_brief_variant, under SpecVariant.                    *)
(***************************************************************************)
\* The first n elements of seq, or all of seq when it has fewer.
Prefix(seq, n) == [i \in 1..(IF Len(seq) < n THEN Len(seq) ELSE n) |-> seq[i]]

\* C10: the free variant of a model holds, for each list, the prefix of the
\* base list of at most the stated length (top_themes 5, alerts.latest_rows
\* 3, correlations 1, network.nodes 3, network.edges 2, patterns 1,
\* indicator_appendix 1 with its indicator_details cut to 2); the paid
\* variant holds every key of the base model unchanged; both have exactly
\* the base model's keys plus tier_context; the input model is the same
\* after the call as before.
FreeRedaction ==
    LET base == variant_out.input
        result == variant_out.result
    IN  variant_out.variant # "" =>
            /\ variant_out.input_after = base
            /\ DOMAIN result = DOMAIN base \cup {"tier_context"}
            /\ result.rest = base.rest
            /\ variant_out.variant = "paid" =>
                   /\ \A key \in DOMAIN base : result[key] = base[key]
                   /\ result.tier_context.tier = "paid"
            /\ variant_out.variant = "free" =>
                   /\ result.top_themes = Prefix(base.top_themes, 5)
                   /\ result.alerts.latest_rows = Prefix(base.alerts.latest_rows, 3)
                   /\ result.alerts.counts = base.alerts.counts
                   /\ result.correlations = Prefix(base.correlations, 1)
                   /\ result.network.nodes = Prefix(base.network.nodes, 3)
                   /\ result.network.edges = Prefix(base.network.edges, 2)
                   /\ result.patterns = Prefix(base.patterns, 1)
                   /\ Len(result.indicator_appendix) <= 1
                   /\ Len(result.indicator_appendix) = 0 <=> Len(base.indicator_appendix) = 0
                   /\ \A i \in 1..Len(result.indicator_appendix) :
                          /\ result.indicator_appendix[i].theme_id =
                                 base.indicator_appendix[i].theme_id
                          /\ result.indicator_appendix[i].indicator_details =
                                 Prefix(base.indicator_appendix[i].indicator_details, 2)
                   /\ result.tier_context.tier = "free"

\* The free variant of a model in which every list is longer than its
\* free limit has been computed.
FreeRedactionWitness ==
    /\ variant_out.variant = "free"
    /\ Len(variant_out.input.top_themes) > 5
    /\ Len(variant_out.input.alerts.latest_rows) > 3
    /\ Len(variant_out.input.correlations) > 1
    /\ Len(variant_out.input.network.nodes) > 3
    /\ Len(variant_out.input.network.edges) > 2
    /\ Len(variant_out.input.patterns) > 1
    /\ Len(variant_out.input.indicator_appendix) > 1
    /\ Len(variant_out.input.indicator_appendix[1].indicator_details) > 2
    /\ Len(variant_out.result.indicator_appendix[1].indicator_details) = 2

(***************************************************************************)
(* C11: after a run_monitor call that read a snapshot, the WSSI alert it   *)
(* raised is classified by |wssi_value| against the configured (or         *)
(* default) wssi thresholds: critical from wssi_critical up, approaching   *)
(* from wssi_approaching up when not critical, watch from wssi_watch up    *)
(* when neither, and no WSSI alert otherwise; the snapshot with the        *)
(* negated wssi_value is classified the same.                              *)
(***************************************************************************)
Magnitude(x) == IF x < 0 THEN 0 - x ELSE x

WssiRaised(alerts) == SelectSeq(alerts, LAMBDA a : a.type = "wssi_threshold")

WssiSeverity(alerts) ==
    IF WssiRaised(alerts) = <<>> THEN "stable" ELSE WssiRaised(alerts)[1].severity

ThresholdClassification ==
    (mon.polls > 0 /\ mon.data.present) =>
        LET m == Magnitude(mon.data.wssi_value)
            th == alert_config.thresholds
            c == get(th, "wssi_critical", DefaultCritical)
            a == get(th, "wssi_approaching", DefaultApproaching)
            w == get(th, "wssi_watch", DefaultWatch)
            sev == WssiSeverity(mon.alerts)
            negated == [mon.data EXCEPT !.wssi_value = 0 - mon.data.wssi_value]
        IN /\ Len(WssiRaised(mon.alerts)) <= 1
           /\ (sev = "critical") <=> (m >= c)
           /\ (sev = "approaching") <=> (m >= a /\ m < c)
           /\ (sev = "watch") <=> (m >= w /\ m < a /\ m < c)
           /\ (sev = "stable") <=> (m < w /\ m < a /\ m < c)
           /\ WssiSeverity(check_thresholds(negated, alert_config)) = sev

ThresholdClassificationWitness ==
    /\ mon.polls > 0
    /\ mon.data.present
    /\ mon.data.wssi_value < 0
    /\ WssiSeverity(mon.alerts) = "watch"
    /\ "wssi_watch" \in DOMAIN alert_config.thresholds
    /\ "wssi_approaching" \in DOMAIN alert_config.thresholds
    /\ alert_config.thresholds["wssi_watch"] < alert_config.thresholds["wssi_approaching"]
    /\ alert_config.thresholds["wssi_approaching"]
          < get(alert_config.thresholds, "wssi_critical", DefaultCritical)

(***************************************************************************)
(* C12: on every daemon poll, an alert for the WSSI or for a theme is      *)
(* dispatched exactly when its severity is not 'stable' and differs from   *)
(* its severity at the previous poll; a poll that finds the severity       *)
(* unchanged dispatches nothing for it.                                    *)
(***************************************************************************)
AlertIds == {NoTheme, "t1", "t2"}

SeverityOf(alerts, id) ==
    IF \E i \in 1..Len(alerts) : alerts[i].theme_id = id
    THEN (CHOOSE a \in {alerts[i] : i \in 1..Len(alerts)} : a.theme_id = id).severity
    ELSE "stable"

Dispatched(sent, id) == \E i \in 1..Len(sent) : sent[i].alert.theme_id = id

CrossingDispatch ==
    [][mon'.polls = mon.polls + 1 =>
          \A id \in AlertIds :
              Dispatched(mon'.sent, id) <=>
                  /\ SeverityOf(mon'.alerts, id) # "stable"
                  /\ SeverityOf(mon'.alerts, id) # SeverityOf(mon.alerts, id)]_vars

(***************************************************************************)
(* C13: a checkout-session request for tier enterprise is answered 400     *)
(* CONTACT_SALES_REQUIRED whatever key it carries; otherwise one without   *)
(* an active, unexpired key is answered 401 AUTH_MISSING whatever the      *)
(* Stripe settings; otherwise one made while the Stripe keys, the module   *)
(* or the tier's price id are missing is answered 503                      *)
(* BILLING_NOT_CONFIGURED; a rejected request changes no api_keys, users   *)
(* or billing_events row.                                                  *)
(***************************************************************************)
LiveKeyOnArrival(r) ==
    /\ r.key_known
    /\ r.key_row.is_active
    /\ \/ r.key_row.expires_at = NoExpiry
       \/ r.at < fromisoformat(r.key_row.expires_at)

StripeReadyFor(tier) ==
    /\ stripe_env.module
    /\ stripe_env.secret_key
    /\ stripe_env.publishable_key
    /\ IF tier = "basic" THEN stripe_env.price_basic ELSE stripe_env.price_pro

CheckoutChecksInOrder ==
    [][(resp'.op = "checkout" /\ resp'.status # 422) =>
          /\ resp'.req_tier = "enterprise" =>
                 resp'.status = 400 /\ resp'.code = "CONTACT_SALES_REQUIRED"
          /\ (resp'.req_tier # "enterprise" /\ ~LiveKeyOnArrival(resp')) =>
                 resp'.status = 401 /\ resp'.code = "AUTH_MISSING"
          /\ (/\ resp'.req_tier # "enterprise"
              /\ LiveKeyOnArrival(resp')
              /\ ~StripeReadyFor(resp'.req_tier)) =>
                 resp'.status = 503 /\ resp'.code = "BILLING_NOT_CONFIGURED"
          /\ resp'.status # 200 => UNCHANGED <<api_keys, users, billing_events>>]_vars

(***************************************************************************)
(* C14: when a verified checkout.session.completed webhook of a session    *)
(* has been applied, the key its metadata names has the target tier and    *)
(* that tier's rate limit, and the user the key was issued to has the      *)
(* target tier and holds an active key of that tier, whatever key          *)
(* rotations that user made since the session was created; a webhook       *)
(* answered 400 carries WEBHOOK_INVALID and changes no table.              *)
(***************************************************************************)
IssuedTo(history, email, key_hash) ==
    \E i \in 1..Len(history[email]) : sha256(history[email][i]) = key_hash

WebhookUpgrade ==
    [][resp'.op = "webhook" =>
          /\ (/\ resp'.status = 200
              /\ Len(billing_events') = Len(billing_events) + 1
              /\ billing_events'[Len(billing_events')].event_type = CheckoutCompleted) =>
                 LET event == billing_events'[Len(billing_events')]
                     key == api_keys'[event.key_hash]
                 IN /\ event.tier \in {"basic", "pro", "enterprise"}
                    /\ key.tier = event.tier
                    /\ key.rate_limit = ClaimedLimit(event.tier)
                    /\ \A email \in DOMAIN issued' :
                           IssuedTo(issued', email, event.key_hash) =>
                               /\ users'[email].tier = event.tier
                               /\ api_keys'[users'[email].key_hash].is_active
                               /\ api_keys'[users'[email].key_hash].tier = event.tier
          /\ resp'.status = 400 =>
                 /\ resp'.code = "WEBHOOK_INVALID"
                 /\ UNCHANGED <<api_keys, users, billing_events, rate_limits>>]_vars

(***************************************************************************)
(* C15: a publish request is answered 503 BRIEF_ARCHIVE_NOT_CONFIGURED     *)
(* when no publish token is configured, else 401 PUBLISH_TOKEN_INVALID     *)
(* when its token header is missing or wrong, else 422                     *)
(* INVALID_RELEASE_DATE when its release_date is given and is not a        *)
(* year-month-day date, else 503 DATA_UNAVAILABLE when the wssi-latest     *)
(* artifact is missing; each of these answers leaves brief_releases and    *)
(* the release files exactly as they were.                                 *)
(***************************************************************************)
ClaimedRejection(env, token, release_date, artifacts) ==
    IF ~env.publish_token THEN <<503, "BRIEF_ARCHIVE_NOT_CONFIGURED">>
    ELSE IF token # "right" THEN <<401, "PUBLISH_TOKEN_INVALID">>
    ELSE IF release_date \notin {"", "2026-01-01", "2026-1-1"}
    THEN <<422, "INVALID_RELEASE_DATE">>
    ELSE IF "wssi-latest" \notin artifacts THEN <<503, "DATA_UNAVAILABLE">>
    ELSE <<0, "">>

DegradedPublish ==
    [][\A d \in {"", "2026-01-01"}, a \in ArtifactInputs :
           (/\ archive_env.publish_token
            /\ "wssi-latest" \in a
            /\ publish_brief_release("right", d, a, "none")) =>
               /\ pub'.status = 200
               /\ "publish_health" \in pub'.keys]_vars

(***************************************************************************)
(* C17: the release list holds min(stored releases, clamp(limit, 1, 200))  *)
(* entries; of any two entries the one published later comes first; and   *)
(* no stored release left out was published after a listed one.            *)
(***************************************************************************)
\* The instant iso_utc_now() was called for a published_at value.
PublishedInstant(published_at) ==
    published_at.second * MicrosPerSecond + published_at.micro

ListNewestFirst ==
    [][\A k \in KeyInputs, limit \in LimitInputs :
           list_brief_releases(k, limit) =>
               LET shown == view'.releases
                   listed == {shown[i].release_id : i \in 1..Len(shown)}
                   clamp == IF limit < 1 THEN 1 ELSE IF limit > 200 THEN 200 ELSE limit
                   stored == Cardinality(DOMAIN brief_releases)
               IN /\ Len(shown) = IF stored < clamp THEN stored ELSE clamp
                  /\ \A i, j \in 1..Len(shown) :
                         i < j => PublishedInstant(shown[i].published_at)
                                      >= PublishedInstant(shown[j].published_at)
                  /\ \A r \in DOMAIN brief_releases \ listed, i \in 1..Len(shown) :
                         PublishedInstant(brief_releases[r].published_at)
                             <= PublishedInstant(shown[i].published_at)]_vars

(***************************************************************************)
(* C18 as stated: a history request that passed the key check is answered  *)
(* with exactly N entries and count = N, N being max(1, days), from the    *)
(* artifact or from the synthetic fallback alike.                          *)
(***************************************************************************)
Requested(out) == IF out.days < 1 THEN 1 ELSE out.days

HistoryExactlyN ==
    (resp.op = "data" /\ resp.status = 200 /\ history_out.status # 0) =>
        /\ history_out.status = 200
        /\ Len(history_out.history) = Requested(history_out)
        /\ history_out.count = Requested(history_out)

\* The rows of the artifact the request looks at, and those it can use.
StoredRows ==
    IF history_artifact.kind # "dict" THEN <<>>
    ELSE IF history_artifact.has_history THEN history_artifact.history
    ELSE history_artifact.data

Usable(row) == row.is_dict /\ row.date # 0

UsableAmongLast(n) ==
    Cardinality({i \in 1..Len(StoredRows) :
                    i > Len(StoredRows) - n /\ Usable(StoredRows[i])})

(***************************************************************************)
(* C18, amended: the answer holds the usable rows among the last N rows    *)
(* of the artifact, at most N and count of them, when there is one; only   *)
(* when there is none (or no artifact) it is the synthetic fallback, with  *)
(* exactly N entries, and that fallback needs the snapshot (503 without).  *)
(***************************************************************************)
HistoryAtMostN ==
    (resp.op = "data" /\ resp.status = 200 /\ history_out.status # 0) =>
        LET n == Requested(history_out)
            usable == UsableAmongLast(n)
        IN /\ history_out.status \in {200, 503}
           /\ history_out.status = 503 <=> (usable = 0 /\ ~wssi_data.present)
           /\ history_out.status = 200 =>
                  /\ history_out.count = Len(history_out.history)
                  /\ history_out.count <= n
                  /\ history_out.source = "artifact" <=> usable > 0
                  /\ history_out.source = "artifact" => history_out.count = usable
                  /\ history_out.source = "synthetic-fallback" =>
                         history_out.count = n

\* Two days were asked of an artifact with three rows, and one entry came
\* back because one of the last two rows has no date.
HistoryAtMostNWitness ==
    /\ resp.op = "data"
    /\ resp.status = 200
    /\ history_out.status = 200
    /\ history_out.days = 2
    /\ history_out.source = "artifact"
    /\ history_out.count = 1
    /\ Len(StoredRows) = MaxHistoryRows

(***************************************************************************)
(* C19: /admin/create-key and /admin/stats answer 200 only to a header     *)
(* that hashes to an api_keys row with is_admin = 1 and is_active = 1; a   *)
(* missing header is answered 401 ADMIN_KEY_REQUIRED, any other header     *)
(* 403 ADMIN_INVALID, and a request without an admin header creates no     *)
(* key.                                                                    *)
(***************************************************************************)
AdminHeader(r) == r.key_known /\ r.key_row.is_admin /\ r.key_row.is_active

AdminOnly ==
    [][(resp'.op \in {"admin_create", "admin_stats"} /\ resp'.status # 422) =>
          /\ resp'.status = 200 => AdminHeader(resp')
          /\ resp'.header = NoKey =>
                 resp'.status = 401 /\ resp'.code = "ADMIN_KEY_REQUIRED"
          /\ (resp'.header # NoKey /\ ~AdminHeader(resp')) =>
                 resp'.status = 403 /\ resp'.code = "ADMIN_INVALID"
          /\ ~AdminHeader(resp') =>
                 /\ api_keys' = api_keys
                 /\ resp'.stats = EmptyTable]_vars

(***************************************************************************)
(* C20: an archive read (release list, detail, view, model) leaves the     *)
(* rate_limits table as it was and never answers 401 or 429; a key that    *)
(* is known, active and unexpired is resolved to its own tier whatever     *)
(* its limit or its remaining quota, and a missing or unknown key is the   *)
(* unauthenticated free viewer; the request is then served, refused only   *)
(* for the release or the variant it names.                                *)
(***************************************************************************)
ArchiveReadOps == {"list", "detail", "view", "model"}

\* The key of the request is one verify_api_key should accept.
ValidArchiveKey(api_key) ==
    /\ KnownKey(api_keys, api_key)
    /\ RowOf(api_keys, api_key).is_active
    /\ RowOf(api_keys, api_key).expires_at = NoExpiry

\* The data routes would answer the key with 429 now.
QuotaExhausted(api_key) ==
    /\ KnownKey(api_keys, api_key)
    /\ ~check_rate_limit(rate_limits, sha256(api_key),
                         RowOf(api_keys, api_key).rate_limit, now).allowed

ArchiveServed(answer) ==
    \/ answer.status = 200
    \/ answer.op # "list" /\ answer.status = 404
                          /\ answer.code \in {"RELEASE_NOT_FOUND",
                                              "RELEASE_ARTIFACT_MISSING"}
    \/ answer.op \in {"view", "model"} /\ answer.status = 422
                                       /\ answer.code = "INVALID_VARIANT"
    \/ /\ answer.op \in {"view", "model"}
       /\ answer.code = "UPGRADE_REQUIRED"
       /\ ~is_paid_tier(answer.viewer.tier)
       /\ answer.status = (IF answer.viewer.authenticated THEN 403 ELSE 402)

ArchiveReadsUnmetered ==
    [][view' # view =>
          /\ view'.op \in ArchiveReadOps
          /\ rate_limits' = rate_limits
          /\ view'.status \notin {401, 429}
          /\ IF ValidArchiveKey(view'.header)
             THEN /\ view'.viewer.authenticated
                  /\ view'.viewer.tier = RowOf(api_keys, view'.header).tier
                  /\ view'.viewer.is_paid
                         = (RowOf(api_keys, view'.header).tier \in PAID_TIERS)
             ELSE view'.viewer = [tier |-> "free", is_paid |-> FALSE,
                                  authenticated |-> FALSE]
          /\ ArchiveServed(view')]_vars

\* The data route has just refused a basic key whose quota is used up, and
\* the archive serves the same key the paid variant of a release.
ArchiveReadsUnmeteredWitness ==
    /\ resp.op = "data" /\ resp.status = 429
    /\ resp.header = view.header
    /\ QuotaExhausted(view.header)
    /\ sha256(view.header) \in DOMAIN rate_limits
    /\ view.op = "view" /\ view.status = 200
    /\ view.viewer = [tier |-> "basic", is_paid |-> TRUE, authenticated |-> TRUE]
    /\ view.content.variant = "paid"

(***************************************************************************)
(* C21: a key created by /admin/create-key with an expiry date is accepted *)
(* by verify_api_key at every time before the expiry instant and rejected  *)
(* at every time after it.                                                 *)
(***************************************************************************)
ExpiringKeys ==
    {k \in KeyInputs : /\ KnownKey(api_keys, k)
                       /\ RowOf(api_keys, k).is_active
                       /\ RowOf(api_keys, k).expires_at # NoExpiry}

AcceptedBeforeExpiry ==
    \A k \in ExpiringKeys :
        now < fromisoformat(RowOf(api_keys, k).expires_at)
            => verify_api_key(api_keys, k, now).found

RejectedAfterExpiry ==
    \A k \in ExpiringKeys :
        now > fromisoformat(RowOf(api_keys, k).expires_at)
            => ~verify_api_key(api_keys, k, now).found

KeyExpiry == AcceptedBeforeExpiry /\ RejectedAfterExpiry

(***************************************************************************)
(* C22: every webhook event that passes signature verification, whatever   *)
(* its type and metadata, adds exactly one billing_events row and is       *)
(* answered 200 {received: true}.                                          *)
(***************************************************************************)
WebhookVerifies ==
    import_stripe(stripe_env) /\ stripe_env.webhook_secret /\ stripe_env.secret_key

OneAuditRow ==
    /\ Len(billing_events') = Len(billing_events) + 1
    /\ SubSeq(billing_events', 1, Len(billing_events)) = billing_events
    /\ resp'.op = "webhook" /\ resp'.status = 200

BillingAudit ==
    [][\A ty \in EventTypeInputs, h \in KeyHashInputs, t \in TargetTierInputs :
           (WebhookVerifies /\ billing_webhook(TRUE, ty, h, t)) => OneAuditRow]_vars

\* The same for the events the handler acts on: any other type than
\* checkout.session.completed, and a completed checkout that names a stored
\* key and a paid tier.
BillingAuditOfHandledEvents ==
    [][\A ty \in EventTypeInputs, h \in KeyHashInputs, t \in TargetTierInputs :
           (/\ WebhookVerifies
            /\ billing_webhook(TRUE, ty, h, t)
            /\ \/ ty # CheckoutCompleted
               \/ h \in DOMAIN api_keys /\ normalize_tier(t, "free") \in PAID_TIERS)
               => OneAuditRow]_vars

(***************************************************************************)
(* C23: after a run_monitor call that read a snapshot, each theme signal   *)
(* is classified by |normalized_value|: watch from theme_watch up to       *)
(* theme_approaching, approaching from theme_approaching up, and critical  *)
(* only from a higher threshold than theme_approaching.                    *)
(***************************************************************************)
ThemeSeverity(alerts, theme_name) ==
    LET raised == SelectSeq(alerts, LAMBDA a : a.type = "theme_threshold"
                                               /\ a.theme_id = theme_name)
    IN  IF raised = <<>> THEN "stable" ELSE raised[1].severity

ThemeClassification ==
    (mon.polls > 0 /\ mon.data.present) =>
        \A i \in 1..Len(mon.data.theme_signals) :
            LET theme == mon.data.theme_signals[i]
                m == Magnitude(theme.normalized_value)
                th == alert_config.thresholds
                a == get(th, "theme_approaching", DefaultApproaching)
                w == get(th, "theme_watch", DefaultWatch)
                sev == ThemeSeverity(mon.alerts, theme.theme_name)
            IN  /\ (sev = "watch") <=> (m >= w /\ m < a)
                /\ (m >= a) => sev \in {"approaching", "critical"}
                /\ (m = a) => sev = "approaching"

\* The same with the thresholds the code compares against: critical and
\* approaching are both read from theme_approaching.
ThemeClassificationAsCoded ==
    (mon.polls > 0 /\ mon.data.present) =>
        \A i \in 1..Len(mon.data.theme_signals) :
            LET theme == mon.data.theme_signals[i]
                m == Magnitude(theme.normalized_value)
                th == alert_config.thresholds
                c == get(th, "theme_approaching", DefaultCritical)
                a == get(th, "theme_approaching", DefaultApproaching)
                w == get(th, "theme_watch", DefaultWatch)
                sev == ThemeSeverity(mon.alerts, theme.theme_name)
            IN  /\ (sev = "critical") <=> (m >= c)
                /\ (sev = "approaching") <=> (m >= a /\ m < c)
                /\ (sev = "watch") <=> (m >= w /\ m < a /\ m < c)
                /\ ("theme_approaching" \in DOMAIN th) => sev # "approaching"

(***************************************************************************)
(* C24: a key that rotation has deactivated is never accepted by           *)
(* verify_api_key again, whatever operation comes next.                    *)
(***************************************************************************)
RotatedOut(api_key) ==
    KnownKey(api_keys, api_key) /\ ~RowOf(api_keys, api_key).is_active

RotatedKeyStaysDead ==
    [][\A k \in KeyInputs :
           RotatedOut(k) => ~verify_api_key(api_keys', k, now').found]_vars

(***************************************************************************)
(* C25: within one reset window, the protected requests allowed to a user  *)
(* on a tier with daily limit L > 0, over all the keys ever issued to the  *)
(* user, number at most L, however data requests and key rotations         *)
(* interleave.                                                             *)
(***************************************************************************)
RECURSIVE AllowedTo(_)
AllowedTo(keys) ==
    IF keys = <<>> THEN 0
    ELSE (IF sha256(Head(keys)) \in DOMAIN rl_calls
          THEN rl_calls[sha256(Head(keys))] ELSE 0) + AllowedTo(Tail(keys))

PerUserQuota ==
    \A e \in DOMAIN users :
        LET L == rate_limit_for_tier(users[e].tier) IN
        (L > 0 /\ e \in DOMAIN issued) => AllowedTo(issued[e]) <= L

\* Each single key stays within the limit.
PerKeyQuota ==
    \A h \in DOMAIN rl_calls : rl_calls[h] <= api_keys[h].rate_limit

(***************************************************************************)
(* C26: after an allowed check_rate_limit call, the remaining it reports   *)
(* is max(0, limit - requests_count) of the row as stored after the call,  *)
(* and the reset_at it reports is the reset_at of that row.                *)
(***************************************************************************)
ReportMatchesRow ==
    /\ rl_out.key \in DOMAIN rate_limits
    /\ rl_out.remaining
           = Max(0, rl_out.limit - rate_limits[rl_out.key].requests_count)
    /\ rl_out.reset_at = fromisoformat(rate_limits[rl_out.key].reset_at)

ReportedQuotaMatchesStored ==
    (rl_out.key # -1 /\ rl_out.allowed) => ReportMatchesRow

\* The same for the first request and for an increment within the window;
\* after a rollover the report is one more than the row leaves.
ReportedQuotaAsCoded ==
    (rl_out.key # -1 /\ rl_out.allowed) =>
        IF RolledOver
        THEN /\ rl_out.remaining = rl_out.limit
             /\ rate_limits[rl_out.key].requests_count = 1
             /\ rl_out.reset_at = fromisoformat(rate_limits[rl_out.key].reset_at)
        ELSE ReportMatchesRow

(***************************************************************************)
(* C27: with check_rate_limit calls for one key interleaved between their  *)
(* SELECT and their UPDATE or INSERT, the calls allowed within one window  *)
(* never number more than the limit L, and no stored requests_count        *)
(* exceeds L.                                                              *)
(***************************************************************************)
AllowedWithinLimit ==
    rl_limit > 0 => \A h \in DOMAIN rl_calls : rl_calls[h] <= rl_limit

StoredWithinLimit ==
    rl_limit > 0 =>
        \A h \in DOMAIN rate_limits : rate_limits[h].requests_count <= rl_limit

ConcurrentCallsWithinLimit ==
    (workers # EmptyTable) => (AllowedWithinLimit /\ StoredWithinLimit)

(***************************************************************************)
(* C28: an active non-admin key has a paid tier only if the admin created  *)
(* it, a verified checkout.session.completed webhook upgraded it, or it    *)
(* was issued by rotation to a user whom such a webhook had upgraded.      *)
(***************************************************************************)
\* The hashes of the keys returned to email e by keys/request, register and
\* login.
IssuedHashes(e) == {sha256(issued[e][i]) : i \in 1..Len(issued[e])}

\* /admin/create-key is the only other operation that inserts a key.
AdminCreated(h) == \A e \in DOMAIN issued : h \notin IssuedHashes(e)

PaidFor(h) ==
    \E e \in DOMAIN issued, i \in 1..Len(billing_events) :
        /\ h \in IssuedHashes(e)
        /\ billing_events[i].event_type = CheckoutCompleted
        /\ billing_events[i].key_hash \in IssuedHashes(e)
        /\ billing_events[i].tier \in PAID_TIERS

PaidTierOnlyByPaymentOrAdmin ==
    \A h \in DOMAIN api_keys :
        (/\ api_keys[h].is_active
         /\ ~api_keys[h].is_admin
         /\ api_keys[h].tier \in PAID_TIERS) => (AdminCreated(h) \/ PaidFor(h))

(***************************************************************************)
(* C29: in the free variant of a model built by build_brief_archive_model, *)
(* indicator detail entries occur only in the first indicator_appendix     *)
(* row, at most 2 of them; no top_themes row carries any.                  *)
(***************************************************************************)
\* The indicator detail entries a row carries.
DetailsOf(row) ==
    IF "indicator_details" \in DOMAIN row THEN row.indicator_details ELSE <<>>

AppendixCut ==
    variant_out.variant = "free" =>
        /\ Len(variant_out.result.indicator_appendix) <= FreeAppendixRows
        /\ \A i \in 1..Len(variant_out.result.indicator_appendix) :
               Len(DetailsOf(variant_out.result.indicator_appendix[i]))
                   <= FreeIndicatorDetails

ThemeRowsWithoutDetails ==
    variant_out.variant = "free" =>
        \A i \in 1..Len(variant_out.result.top_themes) :
            DetailsOf(variant_out.result.top_themes[i]) = <<>>

FreeHidesIndicatorDetails == AppendixCut /\ ThemeRowsWithoutDetails

(***************************************************************************)
(* C30: after a run_monitor call, the threshold field of each alert that   *)
(* check_thresholds returned is the threshold its severity was decided     *)
(* against, so the alert's value is at or above its recorded threshold.    *)
(***************************************************************************)
\* The threshold get_alert_severity compared the value against when it
\* returned the alert's severity.
ComparedThreshold(alert, th) ==
    IF alert.type = "wssi_threshold"
    THEN CASE alert.severity = "critical" -> get(th, "wssi_critical", DefaultCritical)
           [] alert.severity = "approaching" ->
                  get(th, "wssi_approaching", DefaultApproaching)
           [] OTHER -> get(th, "wssi_watch", DefaultWatch)
    ELSE CASE alert.severity = "critical" ->
                  get(th, "theme_approaching", DefaultCritical)
           [] alert.severity = "approaching" ->
                  get(th, "theme_approaching", DefaultApproaching)
           [] OTHER -> get(th, "theme_watch", DefaultWatch)

RecordedIsCompared ==
    \A i \in 1..Len(mon.alerts) :
        mon.alerts[i].threshold
            = ComparedThreshold(mon.alerts[i], alert_config.thresholds)

ValueAtOrAboveRecorded ==
    \A i \in 1..Len(mon.alerts) : mon.alerts[i].value >= mon.alerts[i].threshold

RecordedThreshold == RecordedIsCompared /\ ValueAtOrAboveRecorded

\* What does hold: an alert whose own key (wssi_<severity> or
\* theme_<severity>) is configured records that key's value, any other
\* alert records 1.0; and every alert's value is at or above the threshold
\* it was compared against.
RecordedThresholdAsCoded ==
    \A i \in 1..Len(mon.alerts) :
        LET alert == mon.alerts[i]
            th == alert_config.thresholds
            key == threshold_key(IF alert.type = "wssi_threshold" THEN "wssi"
                                 ELSE "theme", alert.severity)
        IN  /\ alert.threshold = get(th, key, DefaultAlertThreshold)
            /\ alert.value >= ComparedThreshold(alert, th)

====
